---------------------------- MODULE Spec2Model ----------------------------
(***************************************************************************)
(* Model of the incremental fetch-dedup-upsert pipeline of                 *)
(* financial_bad_news: repository.py (fingerprints, duplicate locator,     *)
(* upsert), filters.py (keyword filter) and pipeline.py (run_pipeline).    *)
(*                                                                         *)
(* A Python string is a sequence of one-character strings.  A value that   *)
(* may be None is a sequence of length at most one: None is <<>> and the   *)
(* value v is <<v>>.  A datetime is a number of seconds since the epoch    *)
(* (naive UTC).  A score or a confidence is a number of hundredths.        *)
(***************************************************************************)
EXTENDS Integers, Sequences, FiniteSets, TLC

None == <<>>
Some(v) == <<v>>
IsNone(x) == x = <<>>
Val(x) == x[1]

(***************************************************************************)
(* Bounds of the model.                                                    *)
(***************************************************************************)
\* Rows the store may hold (inserts are not offered beyond it).
MaxStore == 4
\* Stand-in for repository.SIMHASH_CANDIDATE_LIMIT (500 in the source): the
\* number of most recently inserted fingerprinted rows the fuzzy step scans.
SIMHASH_CANDIDATE_LIMIT == 2
\* Items on one page of the feed.
MaxPageLen == 2
\* Pages of feed content in one behaviour; the feed is empty beyond them.
MaxPages == 2
\* Items of feed content in one behaviour, over all its pages.
MaxItems == 3
\* Pipeline runs in one behaviour.
MaxRuns == 2

(***************************************************************************)
(* Program constants (repository.py).                                      *)
(***************************************************************************)
SIMHASH_BITS == 64
SIMHASH_FUZZY_LOWER_BITS == 8
SIMHASH_MATCH_THRESHOLD == 24

(***************************************************************************)
(* Strings.                                                                *)
(***************************************************************************)
Alphabet == <<" ", "a", "b", "c", "d", "e", "f", "g", "h", "k", "l", "n",
              "o", "r", "s", "t", "u", "w", "x", "B", ".">>

\* ord(c), for the characters of Alphabet
CharCode(c) == CHOOSE i \in 1..Len(Alphabet) : Alphabet[i] = c

IsSpace(c) == c = " "

\* str.lower() on one character
LowerChar(c) == IF c = "B" THEN "b" ELSE c

\* str.lower()
RECURSIVE Lower(_)
Lower(s) == IF s = <<>> THEN <<>> ELSE <<LowerChar(Head(s))>> \o Lower(Tail(s))

RECURSIVE LStrip(_)
LStrip(s) == IF s # <<>> /\ IsSpace(Head(s)) THEN LStrip(Tail(s)) ELSE s

RECURSIVE RStrip(_)
RStrip(s) ==
  IF s # <<>> /\ IsSpace(s[Len(s)]) THEN RStrip(SubSeq(s, 1, Len(s) - 1)) ELSE s

\* str.strip()
Strip(s) == LStrip(RStrip(s))

\* str.split(): the maximal runs of non-whitespace characters, in order
RECURSIVE SplitFrom(_, _, _)
SplitFrom(s, cur, acc) ==
  IF s = <<>> THEN (IF cur = <<>> THEN acc ELSE Append(acc, cur))
  ELSE IF IsSpace(Head(s))
       THEN SplitFrom(Tail(s), <<>>, IF cur = <<>> THEN acc ELSE Append(acc, cur))
       ELSE SplitFrom(Tail(s), Append(cur, Head(s)), acc)

Split(s) == SplitFrom(s, <<>>, <<>>)

\* sep.join(parts)
RECURSIVE Join(_, _)
Join(sep, parts) ==
  IF parts = <<>> THEN <<>>
  ELSE IF Len(parts) = 1 THEN parts[1]
  ELSE parts[1] \o sep \o Join(sep, Tail(parts))

\* needle in haystack
Contains(haystack, needle) ==
  \E i \in 0..(Len(haystack) - Len(needle)) :
     SubSeq(haystack, i + 1, i + Len(needle)) = needle

\* s.replace(" ", "")
RECURSIVE RemoveSpaces(_)
RemoveSpaces(s) ==
  IF s = <<>> THEN <<>>
  ELSE IF Head(s) = " " THEN RemoveSpaces(Tail(s))
  ELSE <<Head(s)>> \o RemoveSpaces(Tail(s))

(***************************************************************************)
(* Fingerprint engine (repository.py).                                     *)
(***************************************************************************)
_normalize_text(text) == Strip(Join(<<" ">>, Split(text)))

\* The token occurrences a text contributes, as a sequence: the Counter of the
\* source counts how often each token occurs in it.
TokenOccurrences(text) ==
  LET normalized == _normalize_text(text)
      words      == Split(normalized)
      condensed  == RemoveSpaces(normalized)
      n          == Len(condensed)
      chars      == [i \in 1..n |-> <<condensed[i]>>]
      bigrams    == IF n >= 2 THEN [i \in 1..(n - 1) |-> SubSeq(condensed, i, i + 1)]
                    ELSE <<>>
      trigrams   == IF n <= 3 THEN <<condensed>>
                    ELSE [i \in 1..(n - 2) |-> SubSeq(condensed, i, i + 2)]
  IN  IF normalized = <<>> THEN <<>>
      ELSE IF condensed = <<>> THEN words
      ELSE words \o chars \o bigrams \o trigrams

\* Counter[str]: token |-> number of occurrences
_build_simhash_tokens(text) ==
  LET occ == TokenOccurrences(text)
      toks == {occ[i] : i \in 1..Len(occ)}
  IN  [t \in toks |-> Cardinality({i \in 1..Len(occ) : occ[i] = t})]

\* Stand-in for blake2b(token, digest_size=8): a deterministic 64-bit hash of
\* the token's characters, given as the predicate "bit bit_index is set".
RECURSIVE TokenSeed(_, _)
TokenSeed(token, h) ==
  IF token = <<>> THEN h
  ELSE TokenSeed(Tail(token), (h * 131 + CharCode(Head(token))) % 65521)

TokenHashBit(token, bit_index) ==
  LET seed == TokenSeed(token, 7)
  IN  ((((seed + 1) * (2 * bit_index + 3) + (seed \div (bit_index + 1))) % 11) % 2) = 1

\* The sum of the weights tokens gives the tokens of T
Weight(tokens, T) ==
  Cardinality(UNION {{<<t, k>> : k \in 1..tokens[t]} : t \in T})

\* The accumulator of one bit position: +weight when the token's hash has the
\* bit, -weight otherwise.
BitAccumulator(tokens, bit_index) ==
  LET set == {t \in DOMAIN tokens : TokenHashBit(t, bit_index)}
  IN  Weight(tokens, set) - Weight(tokens, DOMAIN tokens \ set)

\* Mutant of _simhash: a bit whose accumulator is zero is set.
SimhashTieSet(tokens) ==
  IF DOMAIN tokens = {} THEN None
  ELSE Some({b \in 0..(SIMHASH_BITS - 1) :
               /\ BitAccumulator(tokens, b) >= 0
               /\ b >= SIMHASH_FUZZY_LOWER_BITS})

\* The 64-bit fingerprint as the set of its set bit positions, or None.
_simhash(tokens) ==
  IF DOMAIN tokens = {} THEN None
  ELSE Some({b \in 0..(SIMHASH_BITS - 1) :
               /\ BitAccumulator(tokens, b) > 0
               /\ b >= SIMHASH_FUZZY_LOWER_BITS})

HexDigits == <<"0", "1", "2", "3", "4", "5", "6", "7",
               "8", "9", "a", "b", "c", "d", "e", "f">>

\* the hex digit of the k-th nibble, counted from the most significant one
Nibble(bits, k) ==
  LET lo == 4 * ((SIMHASH_BITS \div 4) - k)
  IN  HexDigits[1 + (IF lo \in bits THEN 1 ELSE 0)
                  + (IF (lo + 1) \in bits THEN 2 ELSE 0)
                  + (IF (lo + 2) \in bits THEN 4 ELSE 0)
                  + (IF (lo + 3) \in bits THEN 8 ELSE 0)]

\* f"{fingerprint:016x}": most significant digit first
_format_simhash(fingerprint) ==
  IF IsNone(fingerprint) THEN None
  ELSE LET bits == Val(fingerprint)
       IN  Some(<<Nibble(bits, 1), Nibble(bits, 2), Nibble(bits, 3), Nibble(bits, 4),
                  Nibble(bits, 5), Nibble(bits, 6), Nibble(bits, 7), Nibble(bits, 8),
                  Nibble(bits, 9), Nibble(bits, 10), Nibble(bits, 11), Nibble(bits, 12),
                  Nibble(bits, 13), Nibble(bits, 14), Nibble(bits, 15), Nibble(bits, 16)>>)

\* int(c, 16) of the sixteen digits that hex formatting produces
HexValues ==
  ("0" :> 0) @@ ("1" :> 1) @@ ("2" :> 2) @@ ("3" :> 3) @@ ("4" :> 4) @@
  ("5" :> 5) @@ ("6" :> 6) @@ ("7" :> 7) @@ ("8" :> 8) @@ ("9" :> 9) @@
  ("a" :> 10) @@ ("b" :> 11) @@ ("c" :> 12) @@ ("d" :> 13) @@ ("e" :> 14) @@
  ("f" :> 15)

IsHexDigit(c) == c \in DOMAIN HexValues

HexValue(c) == HexValues[c]

\* 1 if v and w differ in the bit of weight p
BitDiffers(v, w, p) == IF ((v \div p) % 2) = ((w \div p) % 2) THEN 0 ELSE 1

\* The bits in which two hex digits differ
DigitDistance(c, d) ==
  LET v == HexValue(c)
      w == HexValue(d)
  IN  BitDiffers(v, w, 1) + BitDiffers(v, w, 2) + BitDiffers(v, w, 4) + BitDiffers(v, w, 8)

\* The digit of hex that is k places from its right end, "0" beyond its left end
DigitFromRight(hex, k) == IF k < Len(hex) THEN hex[Len(hex) - k] ELSE "0"

\* (int(a, 16) ^ int(b, 16)).bit_count(), digit by digit from the right
RECURSIVE XorBitCount(_, _, _)
XorBitCount(hex_a, hex_b, k) ==
  IF k >= Len(hex_a) /\ k >= Len(hex_b) THEN 0
  ELSE DigitDistance(DigitFromRight(hex_a, k), DigitFromRight(hex_b, k))
       + XorBitCount(hex_a, hex_b, k + 1)

_simhash_distance(hex_a, hex_b) ==
  IF \/ hex_a = <<>> \/ hex_b = <<>>
     \/ \E i \in 1..Len(hex_a) : ~IsHexDigit(hex_a[i])
     \/ \E i \in 1..Len(hex_b) : ~IsHexDigit(hex_b[i])
  THEN SIMHASH_BITS
  ELSE XorBitCount(hex_a, hex_b, 0)


\* Mutant of ContentFingerprint: the parts are joined without a space.
ContentFingerprintJoined(title, description) ==
  LET parts == (IF title # <<>> THEN <<Strip(title)>> ELSE <<>>)
            \o (IF ~IsNone(description) /\ Val(description) # <<>>
                THEN <<Strip(Val(description))>> ELSE <<>>)
      normalized == Join(<<" ">>, Split(Join(<<>>, parts)))
  IN  IF parts = <<>> THEN None
      ELSE IF normalized = <<>> THEN None
      ELSE _format_simhash(_simhash(_build_simhash_tokens(normalized)))

\* _compute_content_fingerprint, as a function of the two texts it reads
ContentFingerprint(title, description) ==
  LET parts == (IF title # <<>> THEN <<Strip(title)>> ELSE <<>>)
            \o (IF ~IsNone(description) /\ Val(description) # <<>>
                THEN <<Strip(Val(description))>> ELSE <<>>)
      normalized == Join(<<" ">>, Split(Join(<<" ">>, parts)))
  IN  IF parts = <<>> THEN None
      ELSE IF normalized = <<>> THEN None
      ELSE _format_simhash(_simhash(_build_simhash_tokens(normalized)))


(***************************************************************************)
(* Texts, fingerprints and times the inputs are drawn from.                *)
(***************************************************************************)
TxtBug  == <<"b", "u", "g">>
TxtBugU == <<"B", "u", "g">>
TxtLeak == <<"l", "e", "a", "k">>
TxtLost == <<"l", "o", "s", "t">>
TxtNews == <<"n", "e", "w", "s">>
TxtX    == <<"x">>
TxtW    == <<"w">>

Rep(c, n) == [i \in 1..n |-> c]

\* Preset fingerprints: FpP24 is at Hamming distance 24 of FpP, FpP25 at 25,
\* and FpG at 32 or more of all three.
FpP   == Rep("f", 16)
FpP24 == Rep("0", 6) \o Rep("f", 10)
FpP25 == Rep("0", 6) \o <<"e">> \o Rep("f", 9)
FpG   == Rep("f", 8) \o Rep("0", 8)

\* The (title, description) pairs of the inputs, fingerprinted once.
KnownTexts ==
  {<<TxtBug, Some(TxtX)>>, <<TxtBug, Some(TxtW)>>, <<TxtLeak, Some(TxtLost)>>,
   <<TxtNews, Some(TxtX)>>, <<TxtBugU, None>>, <<TxtBugU, Some(TxtX)>>}

FingerprintTable == [tx \in KnownTexts |-> ContentFingerprint(tx[1], tx[2])]

(***************************************************************************)
(* NewsArticle (models.py) and the store: the rows of news_articles, in    *)
(* insertion order.                                                        *)
(***************************************************************************)
\* The fields upsert_article compares and copies, in the order of its loop.
MutableFields ==
  <<"title", "description", "thumbnail", "extra", "content_fingerprint",
    "source_timestamp", "matched_keywords", "local_sentiment_score",
    "local_is_negative", "llm_classification", "llm_confidence", "reason",
    "raw_payload">>

\* dict(): a payload with no key
EmptyDict ==
  [title |-> None, description |-> None, url |-> None, thumbnail |-> None,
   extra |-> None, time |-> [kind |-> "missing", n |-> 0, s |-> <<>>]]

\* NewsArticle(...) before it is added to a session
NewsArticle(url, title, description, fingerprint, ts) ==
  [url |-> url, title |-> title, description |-> description,
   thumbnail |-> None, extra |-> None, content_fingerprint |-> fingerprint,
   source_timestamp |-> ts, matched_keywords |-> None,
   local_sentiment_score |-> None, local_is_negative |-> None,
   llm_classification |-> None, llm_confidence |-> None, reason |-> None,
   raw_payload |-> EmptyDict]

_compute_content_fingerprint(article) ==
  IF <<article.title, article.description>> \in KnownTexts
  THEN FingerprintTable[<<article.title, article.description>>]
  ELSE ContentFingerprint(article.title, article.description)

Truthy(opt) == ~IsNone(opt) /\ Val(opt) # <<>>

\* Mutant of _ensure_article_fingerprint: an absent fingerprint is left absent.
EnsureNothing(article) == <<article, article.content_fingerprint>>

\* Returns <<article with its fingerprint set, the fingerprint>>
_ensure_article_fingerprint(article) ==
  IF Truthy(article.content_fingerprint)
  THEN <<article, article.content_fingerprint>>
  ELSE LET Computed(fingerprint) ==
             IF Truthy(fingerprint)
             THEN <<[article EXCEPT !.content_fingerprint = fingerprint], fingerprint>>
             ELSE <<article, fingerprint>>
       IN  Computed(_compute_content_fingerprint(article))

\* The result of a lookup: a row's id, no row, or MultipleResultsFound
Found(id) == [kind |-> "row", id |-> id]
NotFound == [kind |-> "none", id |-> 0]
Raised == [kind |-> "raise", id |-> 0]

\* Result.scalar_one_or_none() over the rows at positions hits
ScalarOneOrNone(rows, hits) ==
  IF hits = {} THEN NotFound
  ELSE IF Cardinality(hits) = 1 THEN Found(rows[CHOOSE i \in hits : TRUE].id)
  ELSE Raised

RowById(rows, id) == rows[CHOOSE i \in DOMAIN rows : rows[i].id = id]

\* ORDER BY id DESC, over the ids of the selected rows
RECURSIVE OrderByIdDesc(_)
OrderByIdDesc(ids) ==
  IF ids = {} THEN <<>>
  ELSE LET m == CHOOSE r \in ids : \A q \in ids : q <= r
       IN  <<m>> \o OrderByIdDesc(ids \ {m})

\* LIMIT n
Limit(seq, n) == SubSeq(seq, 1, IF Len(seq) < n THEN Len(seq) ELSE n)

\* The candidates of the fuzzy step: the ids of the fingerprinted rows, newest
\* first, at most SIMHASH_CANDIDATE_LIMIT of them.
FuzzyCandidates(rows) ==
  Limit(OrderByIdDesc({rows[i].id : i \in {j \in DOMAIN rows :
                                             ~IsNone(rows[j].content_fingerprint)}}),
        SIMHASH_CANDIDATE_LIMIT)

\* The loop of _find_similar_article: <<closest (an id or None), best_distance>>
RECURSIVE ScanClosest(_, _, _, _, _)
ScanClosest(rows, candidates, fingerprint, closest, best_distance) ==
  IF candidates = <<>> THEN <<closest, best_distance>>
  ELSE LET candidate == RowById(rows, Head(candidates))
           candidate_fp == candidate.content_fingerprint
       IN  IF ~Truthy(candidate_fp)
           THEN ScanClosest(rows, Tail(candidates), fingerprint, closest, best_distance)
           ELSE LET distance == _simhash_distance(fingerprint, Val(candidate_fp))
                IN  IF distance < best_distance
                    THEN ScanClosest(rows, Tail(candidates), fingerprint,
                                     Some(candidate.id), distance)
                    ELSE ScanClosest(rows, Tail(candidates), fingerprint,
                                     closest, best_distance)

\* Mutant of _find_similar_article: a distance equal to the threshold is no match.
FindSimilarBelowThreshold(rows, fingerprint) ==
  LET exact == ScalarOneOrNone(rows,
                 {i \in DOMAIN rows : rows[i].content_fingerprint = Some(fingerprint)})
      scan == ScanClosest(rows, FuzzyCandidates(rows), fingerprint, None, SIMHASH_BITS + 1)
  IN  IF exact.kind # "none" THEN exact
      ELSE IF ~IsNone(scan[1]) /\ scan[2] < SIMHASH_MATCH_THRESHOLD
           THEN Found(Val(scan[1]))
           ELSE NotFound

\* Mutant of _find_similar_article: only the exact lookup, no scan of the
\* recent fingerprints.
FindSimilarExactOnly(rows, fingerprint) ==
  ScalarOneOrNone(rows,
    {i \in DOMAIN rows : rows[i].content_fingerprint = Some(fingerprint)})

\* Mutant of _find_similar_article: no exact lookup, only the scan of the
\* recent fingerprints.
FindSimilarScanOnly(rows, fingerprint) ==
  LET scan == ScanClosest(rows, FuzzyCandidates(rows), fingerprint, None, SIMHASH_BITS + 1)
  IN  IF ~IsNone(scan[1]) /\ scan[2] <= SIMHASH_MATCH_THRESHOLD
      THEN Found(Val(scan[1]))
      ELSE NotFound

\* fingerprint is a string here (the caller passes a truthy one)
_find_similar_article(rows, fingerprint) ==
  LET exact == ScalarOneOrNone(rows,
                 {i \in DOMAIN rows : rows[i].content_fingerprint = Some(fingerprint)})
      scan == ScanClosest(rows, FuzzyCandidates(rows), fingerprint, None, SIMHASH_BITS + 1)
  IN  IF exact.kind # "none" THEN exact
      ELSE IF ~IsNone(scan[1]) /\ scan[2] <= SIMHASH_MATCH_THRESHOLD
           THEN Found(Val(scan[1]))
           ELSE NotFound

\* Mutant of _locate_existing_article: the url is looked up only for a
\* candidate without fingerprint.
LocateWithoutUrl(rows, article, fingerprint) ==
  IF Truthy(fingerprint)
  THEN _find_similar_article(rows, Val(fingerprint))
  ELSE ScalarOneOrNone(rows, {i \in DOMAIN rows : rows[i].url = article.url})

\* Mutant of _locate_existing_article: the url is looked up first.
LocateByUrlFirst(rows, article, fingerprint) ==
  LET by_url == ScalarOneOrNone(rows, {i \in DOMAIN rows : rows[i].url = article.url})
  IN  IF by_url.kind # "none" THEN by_url
      ELSE IF ~IsNone(fingerprint) /\ Val(fingerprint) # <<>>
           THEN ScalarOneOrNone(rows,
                  {i \in DOMAIN rows : rows[i].content_fingerprint = fingerprint})
           ELSE NotFound

_locate_existing_article(rows, article, fingerprint) ==
  LET existing == IF Truthy(fingerprint)
                  THEN _find_similar_article(rows, Val(fingerprint))
                  ELSE NotFound
  IN  IF existing.kind # "none" THEN existing
      ELSE ScalarOneOrNone(rows, {i \in DOMAIN rows : rows[i].url = article.url})

\* Mutant of get_latest_timestamp: the store is taken to hold no timestamp.
LatestUnknown(rows) == None

get_latest_timestamp(rows) ==
  IF rows = <<>> THEN None
  ELSE Some(CHOOSE t \in {rows[i].source_timestamp : i \in DOMAIN rows} :
              \A i \in DOMAIN rows : rows[i].source_timestamp <= t)

\* The id SQLite gives a new row of an INTEGER PRIMARY KEY table
NextId(rows) ==
  IF rows = <<>> THEN 1
  ELSE 1 + (CHOOSE m \in {rows[i].id : i \in DOMAIN rows} :
              \A i \in DOMAIN rows : rows[i].id <= m)

\* Mutant of InsertRow: the new row takes the place of the oldest one.
InsertRowReplacing(rows, article, now) ==
  Append(IF rows = <<>> THEN rows ELSE Tail(rows),
         [id |-> NextId(rows), fetched_at |-> now] @@ article)

\* session.add(article); session.flush(): the INSERT, with the defaults of
\* the id and fetched_at columns
InsertRow(rows, article, now) ==
  Append(rows, [id |-> NextId(rows), fetched_at |-> now] @@ article)

\* Mutant of MergeFields: the flag is assigned, not raised, at each field, so
\* it tells of the last field only.
RECURSIVE MergeFieldsLastFlag(_, _, _, _)
MergeFieldsLastFlag(existing, article, k, updated) ==
  IF k > 13 THEN <<existing, updated>>
  ELSE LET field == <<"title", "description", "thumbnail", "extra",
                      "content_fingerprint", "source_timestamp", "matched_keywords",
                      "local_sentiment_score", "local_is_negative",
                      "llm_classification", "llm_confidence", "reason",
                      "raw_payload">>[k]
       IN  MergeFieldsLastFlag([existing EXCEPT ![field] = article[field]], article,
                               k + 1, article[field] # existing[field])

\* Mutant of MergeFields: a value the candidate lacks is not copied.
RECURSIVE MergeFieldsSkipNone(_, _, _, _)
MergeFieldsSkipNone(existing, article, k, updated) ==
  IF k > 13 THEN <<existing, updated>>
  ELSE LET field == <<"title", "description", "thumbnail", "extra",
                      "content_fingerprint", "source_timestamp", "matched_keywords",
                      "local_sentiment_score", "local_is_negative",
                      "llm_classification", "llm_confidence", "reason",
                      "raw_payload">>[k]
           absent == /\ field \notin {"title", "source_timestamp", "raw_payload"}
                     /\ article[field] = None
       IN  IF ~absent /\ article[field] # existing[field]
           THEN MergeFieldsSkipNone([existing EXCEPT ![field] = article[field]],
                                    article, k + 1, TRUE)
           ELSE MergeFieldsSkipNone(existing, article, k + 1, updated)

\* Mutant of MergeFields: the url is copied with the other fields.
RECURSIVE MergeFieldsWithUrl(_, _, _, _)
MergeFieldsWithUrl(existing, article, k, updated) ==
  IF k > 13 THEN <<[existing EXCEPT !.url = article.url], updated>>
  ELSE LET field == <<"title", "description", "thumbnail", "extra",
                      "content_fingerprint", "source_timestamp", "matched_keywords",
                      "local_sentiment_score", "local_is_negative",
                      "llm_classification", "llm_confidence", "reason",
                      "raw_payload">>[k]
       IN  MergeFieldsWithUrl([existing EXCEPT ![field] = article[field]], article,
                              k + 1, updated \/ article[field] # existing[field])

\* Mutant of MergeFields: a merge is reported as an update whether or not a
\* field was assigned.
RECURSIVE MergeFieldsReported(_, _, _, _)
MergeFieldsReported(existing, article, k, updated) ==
  IF k > Len(MutableFields) THEN <<existing, TRUE>>
  ELSE LET field == MutableFields[k]
           new_value == article[field]
       IN  IF new_value # existing[field]
           THEN MergeFieldsReported([existing EXCEPT ![field] = new_value], article,
                                    k + 1, TRUE)
           ELSE MergeFieldsReported(existing, article, k + 1, updated)

\* The merge loop of upsert_article over the fields at positions k..13:
\* <<the row, updated>>
RECURSIVE MergeFields(_, _, _, _)
MergeFields(existing, article, k, updated) ==
  IF k > Len(MutableFields) THEN <<existing, updated>>
  ELSE LET field == MutableFields[k]
           new_value == article[field]
       IN  IF new_value # existing[field]
           THEN MergeFields([existing EXCEPT ![field] = new_value], article, k + 1, TRUE)
           ELSE MergeFields(existing, article, k + 1, updated)

\* upsert_article(session, article) at time now:
\*   rows: the rows afterwards; inserted, updated: the pair it returns;
\*   located: what the locator found; article: the article as it leaves the
\*   call; raised: the exception that ends the call, or "".
upsert_article(rows, article, now) ==
  LET Merge(ensured, existing, pos, merged) ==
        [rows |-> [rows EXCEPT ![pos] = merged[1]], inserted |-> FALSE,
         updated |-> merged[2], located |-> existing,
         article |-> ensured, raised |-> ""]
      Located(ensured, existing) ==
        IF existing.kind = "raise"
        THEN [rows |-> rows, inserted |-> FALSE, updated |-> FALSE,
              located |-> existing, article |-> ensured,
              raised |-> "MultipleResultsFound"]
        ELSE IF existing.kind = "none"
        THEN IF \E i \in DOMAIN rows : rows[i].url = ensured.url
             THEN [rows |-> rows, inserted |-> FALSE, updated |-> FALSE,
                   located |-> existing, article |-> ensured,
                   raised |-> "IntegrityError"]
             ELSE [rows |-> InsertRow(rows, ensured, now), inserted |-> TRUE,
                   updated |-> FALSE, located |-> existing, article |-> ensured,
                   raised |-> ""]
        ELSE \* existing is the row at position pos
             LET AtPos(pos) ==
                   Merge(ensured, existing, pos, MergeFields(rows[pos], ensured, 1, FALSE))
             IN  AtPos(CHOOSE i \in DOMAIN rows : rows[i].id = existing.id)
      Ensured(pair) ==
        Located(pair[1], _locate_existing_article(rows, pair[1], pair[2]))
  IN  Ensured(_ensure_article_fingerprint(article))

\* session.flush() at the end of bulk_upsert_articles: the INSERTs of the
\* pending articles, in the order they were added
RECURSIVE FlushPending(_, _, _)
FlushPending(rows, pending, now) ==
  IF pending = <<>> THEN rows
  ELSE FlushPending(InsertRow(rows, Head(pending), now), Tail(pending), now)

\* bulk_upsert_articles(session, articles) at time now, in a session of
\* get_session_factory (autoflush=False): nothing is flushed inside the loop,
\* so every SELECT of the locator filters and orders on rows, the rows as
\* they were flushed before the call, while the attributes the code reads
\* (the fingerprints of the scan, the fields of the merge) are those of
\* loaded, the objects of the session with their unflushed assignments.
\* pending holds the articles added and not yet inserted.  The result:
\* rows afterwards, the totals returned, raised (the exception, or "").
RECURSIVE bulk_upsert_articles(_, _, _, _, _, _, _)
bulk_upsert_articles(rows, loaded, pending, articles, inserted, updated, now) ==
  IF articles = <<>>
  THEN IF \/ \E i, j \in DOMAIN pending : i # j /\ pending[i].url = pending[j].url
          \/ \E i \in DOMAIN pending, j \in DOMAIN rows : pending[i].url = rows[j].url
       THEN [rows |-> rows, inserted |-> 0, updated |-> 0, raised |-> "ValueError"]
       ELSE [rows |-> FlushPending(loaded, pending, now), inserted |-> inserted,
             updated |-> updated, raised |-> ""]
  ELSE LET pair == _ensure_article_fingerprint(Head(articles))
           article == pair[1]
           fingerprint == pair[2]
           exact == ScalarOneOrNone(rows,
                      {i \in DOMAIN rows :
                         rows[i].content_fingerprint = Some(Val(fingerprint))})
           scan == ScanClosest(loaded, FuzzyCandidates(rows), Val(fingerprint),
                               None, SIMHASH_BITS + 1)
           similar == IF ~Truthy(fingerprint) THEN NotFound
                      ELSE IF exact.kind # "none" THEN exact
                      ELSE IF ~IsNone(scan[1]) /\ scan[2] <= SIMHASH_MATCH_THRESHOLD
                           THEN Found(Val(scan[1]))
                           ELSE NotFound
           existing == IF similar.kind # "none" THEN similar
                       ELSE ScalarOneOrNone(rows,
                              {i \in DOMAIN rows : rows[i].url = article.url})
           MergeAt(pos, merged) ==
             bulk_upsert_articles(rows, [loaded EXCEPT ![pos] = merged[1]], pending,
                                  Tail(articles), inserted,
                                  IF merged[2] THEN updated + 1 ELSE updated, now)
           AtPos(pos) == MergeAt(pos, MergeFields(loaded[pos], article, 1, FALSE))
       IN  IF existing.kind = "raise"
           THEN [rows |-> rows, inserted |-> 0, updated |-> 0,
                 raised |-> "MultipleResultsFound"]
           ELSE IF existing.kind = "none"
           THEN bulk_upsert_articles(rows, loaded, Append(pending, article),
                                     Tail(articles), inserted + 1, updated, now)
           ELSE AtPos(CHOOSE i \in DOMAIN rows : rows[i].id = existing.id)

(***************************************************************************)
(* filters.py                                                              *)
(***************************************************************************)
\* The loop of match_keywords over the keywords that remain
RECURSIVE MatchFrom(_, _)
MatchFrom(lowered, keywords) ==
  IF keywords = <<>> THEN <<>>
  ELSE LET normalized == Lower(Strip(Head(keywords)))
       IN  (IF normalized # <<>> /\ Contains(lowered, normalized)
            THEN <<Strip(Head(keywords))>> ELSE <<>>)
           \o MatchFrom(lowered, Tail(keywords))

\* Mutant of match_keywords: every keyword is reported as matched.
MatchEveryKeyword(text, keywords) ==
  [i \in 1..Len(keywords) |-> Strip(keywords[i])]

\* Mutant of match_keywords: the text is searched as it is written.
MatchCaseSensitive(text, keywords) == MatchFrom(text, keywords)

match_keywords(text, keywords) == MatchFrom(Lower(text), keywords)

\* Stands for the ideographic full stop that joins title and description
FullStop == "."

extract_item_text(item) ==
  Join(<<FullStop>>,
       (IF Truthy(item.title) THEN <<Val(item.title)>> ELSE <<>>)
       \o (IF Truthy(item.description) THEN <<Val(item.description)>> ELSE <<>>))

(***************************************************************************)
(* pipeline.py: the helpers of run_pipeline.                               *)
(***************************************************************************)
\* The "time" of a feed item: an int, a str, or a missing key / anything else
IntTime(n) == [kind |-> "int", n |-> n, s |-> <<>>]
StrTime(s) == [kind |-> "str", n |-> 0, s |-> s]
NoTime == [kind |-> "missing", n |-> 0, s |-> <<>>]

IsDigit(c) == c \in {"0", "1", "2", "3", "4", "5", "6", "7", "8", "9"}

\* int(s) of a string of digits
RECURSIVE ParseInt(_, _)
ParseInt(s, acc) ==
  IF s = <<>> THEN acc ELSE ParseInt(Tail(s), 10 * acc + HexValue(Head(s)))

\* The naive UTC datetime of the item's time, or None
_parse_timestamp(value) ==
  IF value.kind = "int" THEN Some(value.n)
  ELSE IF /\ value.kind = "str"
          /\ value.s # <<>>
          /\ \A i \in 1..Len(value.s) : IsDigit(value.s[i])
       THEN Some(ParseInt(value.s, 0))
  ELSE None

\* A page payload: items is None when "data" is no mapping or "items" no list
_extract_items(payload) ==
  IF IsNone(payload.items) THEN <<>> ELSE Val(payload.items)

\* A value of "totalpage": <<>> when "data" is no mapping or has no such key,
\* <<n>> an int n, <<s, "str">> a str s
StrTotal(s) == <<s, "str">>

\* Mutant of _extract_total_pages: a str of digits counts as the int it
\* spells.
ExtractTotalPagesCoerced(payload) ==
  IF Len(payload.totalpage) = 2
  THEN Some(CHOOSE n \in 0..9 : HexDigits[n + 1] = payload.totalpage[1])
  ELSE payload.totalpage

\* isinstance(total_page, int): the int as it is, None for anything else
_extract_total_pages(payload) ==
  IF Len(payload.totalpage) = 1 THEN payload.totalpage ELSE None

\* The label _LLM_LABEL_MAP gives, or the label itself
LabelText(llm_label) ==
  IF llm_label = "negative" THEN "fumian"
  ELSE IF llm_label = "neutral" THEN "zhongxing"
  ELSE IF llm_label = "positive" THEN "zhengmian"
  ELSE llm_label

\* The parts of the reason, in order; the source joins them into one string
_build_reason(matched_keywords, local_score, local_negative, llm_label, llm_confidence) ==
  (IF matched_keywords # <<>>
   THEN <<[part |-> "keywords", text |-> Join(<<",">>, matched_keywords)]>>
   ELSE <<>>)
  \o <<[part |-> "local", score |-> local_score, negative |-> local_negative]>>
  \o (IF llm_label # ""
      THEN <<[part |-> "llm", label |-> LabelText(llm_label),
              confidence |-> llm_confidence]>>
      ELSE <<>>)

\* now.replace(hour=0, minute=0, second=0, microsecond=0)
StartOfDay(now) == now - (now % 86400)

\* Mutant of EffectiveMinTimestamp: the floor is min_timestamp as passed.
EffectiveMinTimestampAsPassed(min_timestamp, last_timestamp, now) == min_timestamp

\* effective_min_timestamp (lines 66-69): the start of the current UTC day when
\* no min_timestamp is passed and the store has no timestamp
EffectiveMinTimestamp(min_timestamp, last_timestamp, now) ==
  IF IsNone(min_timestamp) /\ IsNone(last_timestamp)
  THEN Some(StartOfDay(now)) ELSE min_timestamp

\* LocalClassifier.classify, given the sentiment SnowNLP returns for the text
LocalClassify(sentiment, negative_threshold) ==
  <<sentiment, sentiment < negative_threshold>>

\* sentiment_negative_threshold of the settings, in hundredths
SentimentThreshold == 45

\* tophub_max_pages of the settings (config.py lines 21-26), as configured
\* with TOPHUB_MAX_PAGES=1.  run_pipeline reads keywords_list, fetch_keyword,
\* page_size, the threshold and the urls and keys of the services from the
\* settings; it never reads this field, and neither does TophubClient.
tophub_max_pages == Some(1)

\* The sentiment LocalClassifier.classify goes on with, in hundredths: the one
\* SnowNLP(text).sentiments returns, or 0.5 when it raises (None)
DefaultSentiment == 50
Sentiment(snownlp) == IF IsNone(snownlp) THEN DefaultSentiment ELSE Val(snownlp)

(***************************************************************************)
(* classification.py: LLMClassifier.                                       *)
(***************************************************************************)
\* The parameters of LLMClassifier.__init__, and those without a default
InitParameters == {"base_url", "api_key", "model", "timeout"}
RequiredParameters == {"base_url", "api_key", "model"}

\* LLMClassifier(**kwargs): the exception it raises, "" when it returns
LLMClassifierInit(kwargs) ==
  IF RequiredParameters \subseteq kwargs /\ kwargs \subseteq InitParameters
  THEN "" ELSE "TypeError"

\* A value of "confidence" in the JSON of the answer: a number (in
\* hundredths), a string that float() reads as that number ("number_text"),
\* another string ("text"), null, or no such key ("absent")
Confidence(t, v) == [t |-> t, v |-> v]
Number(v) == Confidence("number", v)

\* What httpx.post(...) and the lines after it meet (lines 61-65): no answer
\* in time; a bad status; a body that is no JSON; a body without
\* choices[0].message.content; a content that is no JSON; a content that is
\* JSON but no object; a content that is a JSON object with these values
\* under "label" (None: no such key) and "confidence"
Failure(kind) == [kind |-> kind, label |-> None, confidence |-> Confidence("absent", 0)]
Answer(label, confidence) == [kind |-> "object", label |-> label, confidence |-> confidence]
FailureKinds == {"timeout", "bad_status", "bad_body", "no_content", "not_json", "not_object"}
FailingResponses == {Failure(kind) : kind \in FailureKinds}
AnswerLabels == {None, Some("negative"), Some("Negative"), Some("bearish")}
AnswerConfidences ==
  {Number(90), Number(170), Confidence("number_text", 80), Confidence("text", 0),
   Confidence("null", 0), Confidence("absent", 0)}
LLMResponses ==
  FailingResponses \cup {Answer(l, c) : l \in AnswerLabels, c \in AnswerConfidences}

\* str.lower() of the labels of the model
LowerLabel(label) == IF label = "Negative" THEN "negative" ELSE label

\* label = str(parsed.get("label", "unknown")).lower()
LabelOf(label) == IF IsNone(label) THEN "unknown" ELSE LowerLabel(Val(label))

\* confidence = float(parsed.get("confidence", 0.0)), 0.0 when float() raises
\* TypeError or ValueError (lines 67-71)
ConfidenceOf(confidence) ==
  IF confidence.t \in {"number", "number_text"} THEN confidence.v ELSE 0

\* Mutant of LLMClassify: a timeout of the request is not caught.
LLMClassifyRaising(api_key, responses) ==
  IF api_key = ""
  THEN [label |-> "not_configured", confidence |-> 0, posts |-> 0, raised |-> ""]
  ELSE IF responses[1].kind = "timeout"
  THEN [label |-> "", confidence |-> 0, posts |-> 1, raised |-> "httpx.ReadTimeout"]
  ELSE IF responses[1].kind # "object"
  THEN [label |-> "error", confidence |-> 0, posts |-> 1, raised |-> ""]
  ELSE [label |-> LabelOf(responses[1].label),
        confidence |-> ConfidenceOf(responses[1].confidence),
        posts |-> 1, raised |-> ""]

\* LLMClassifier.classify (lines 38-75), where responses[n] is what the n-th
\* httpx.post of the call would meet: the label and the confidence it
\* returns, the number of posts it made and the exception it raised
LLMClassify(api_key, responses) ==
  IF api_key = ""
  THEN [label |-> "not_configured", confidence |-> 0, posts |-> 0, raised |-> ""]
  ELSE IF responses[1].kind # "object"
  THEN [label |-> "error", confidence |-> 0, posts |-> 1, raised |-> ""]
  ELSE [label |-> LabelOf(responses[1].label),
        confidence |-> ConfidenceOf(responses[1].confidence),
        posts |-> 1, raised |-> ""]

\* NewsArticle(...) of lines 130-144, for an item with a time and a url
ArticleOfItem(item, article_time, matched, local, llm) ==
  [url |-> Val(item.url),
   title |-> IF Truthy(item.title) THEN Val(item.title) ELSE <<>>,
   description |-> Some(IF Truthy(item.description) THEN Val(item.description)
                        ELSE <<>>),
   thumbnail |-> item.thumbnail, extra |-> item.extra,
   content_fingerprint |-> None, source_timestamp |-> article_time,
   matched_keywords |-> IF matched # <<>> THEN Some(Join(<<",">>, matched)) ELSE None,
   local_sentiment_score |-> Some(local[1]), local_is_negative |-> Some(local[2]),
   llm_classification |-> Some(llm[1]), llm_confidence |-> Some(llm[2]),
   reason |-> Some(_build_reason(matched, local[1], local[2], llm[1], llm[2])),
   raw_payload |-> item]

\* Mutant of Skipped: an item the loop leaves with "continue" is counted as
\* Mutant of Skipped: every skipped item sets stop_paging.
SkippedStopping(disposition, marks_stop, classified) ==
  [disposition |-> disposition, marks_stop |-> TRUE,
   classified |-> classified, processed |-> FALSE, upsert |-> None]

\* processed.
SkippedCounted(disposition, marks_stop, classified) ==
  [disposition |-> disposition, marks_stop |-> marks_stop,
   classified |-> classified, processed |-> TRUE, upsert |-> None]

\* An item the loop leaves with "continue"
Skipped(disposition, marks_stop, classified) ==
  [disposition |-> disposition, marks_stop |-> marks_stop,
   classified |-> classified, processed |-> FALSE, upsert |-> None]

\* Mutant of EvaluateItem: an item as old as last_timestamp is not set aside.
EvaluateItemStrict(rows, last_timestamp, effective_min_timestamp, keywords, item, sentiment, llm, now) ==
  LET article_time == _parse_timestamp(item.time)
      matched == match_keywords(extract_item_text(item), keywords)
      local == LocalClassify(sentiment, SentimentThreshold)
  IN  IF IsNone(article_time) THEN Skipped("no_time", FALSE, FALSE)
      ELSE IF ~IsNone(last_timestamp) /\ Val(article_time) < Val(last_timestamp)
      THEN Skipped("seen", TRUE, FALSE)
      ELSE IF /\ ~IsNone(effective_min_timestamp)
              /\ Val(article_time) < Val(effective_min_timestamp)
      THEN Skipped("below_floor", TRUE, FALSE)
      ELSE IF matched = <<>> THEN Skipped("no_keyword", FALSE, FALSE)
      ELSE IF IsNone(item.url) \/ Val(item.url) = ""
      THEN Skipped("no_url", FALSE, TRUE)
      ELSE [disposition |-> "upserted", marks_stop |-> FALSE, classified |-> TRUE,
            processed |-> TRUE,
            upsert |-> Some(upsert_article(rows,
                         ArticleOfItem(item, Val(article_time), matched, local, llm),
                         now))]

\* Mutant of EvaluateItem: last_timestamp is read from the store again for
\* every item.
EvaluateItemRefreshing(rows, last_timestamp, effective_min_timestamp, keywords, item, sentiment, llm, now) ==
  LET article_time == _parse_timestamp(item.time)
      matched == match_keywords(extract_item_text(item), keywords)
      local == LocalClassify(sentiment, SentimentThreshold)
      latest == get_latest_timestamp(rows)
  IN  IF IsNone(article_time) THEN Skipped("no_time", FALSE, FALSE)
      ELSE IF ~IsNone(latest) /\ Val(article_time) <= Val(latest)
      THEN Skipped("seen", TRUE, FALSE)
      ELSE IF /\ ~IsNone(effective_min_timestamp)
              /\ Val(article_time) < Val(effective_min_timestamp)
      THEN Skipped("below_floor", TRUE, FALSE)
      ELSE IF matched = <<>> THEN Skipped("no_keyword", FALSE, FALSE)
      ELSE IF IsNone(item.url) \/ Val(item.url) = ""
      THEN Skipped("no_url", FALSE, TRUE)
      ELSE [disposition |-> "upserted", marks_stop |-> FALSE, classified |-> TRUE,
            processed |-> TRUE,
            upsert |-> Some(upsert_article(rows,
                         ArticleOfItem(item, Val(article_time), matched, local, llm),
                         now))]

\* The body of the loop over the items of a page (lines 92-161) for one item:
\* what becomes of it, whether it sets stop_paging, whether the classifiers
\* were called, whether it counts as processed, and the call of upsert_article.
EvaluateItem(rows, last_timestamp, effective_min_timestamp, keywords, item, sentiment, llm, now) ==
  LET article_time == _parse_timestamp(item.time)
      matched == match_keywords(extract_item_text(item), keywords)
      local == LocalClassify(sentiment, SentimentThreshold)
  IN  IF IsNone(article_time) THEN Skipped("no_time", FALSE, FALSE)
      ELSE IF ~IsNone(last_timestamp) /\ Val(article_time) <= Val(last_timestamp)
      THEN Skipped("seen", TRUE, FALSE)
      ELSE IF /\ ~IsNone(effective_min_timestamp)
              /\ Val(article_time) < Val(effective_min_timestamp)
      THEN Skipped("below_floor", TRUE, FALSE)
      ELSE IF matched = <<>> THEN Skipped("no_keyword", FALSE, FALSE)
      ELSE IF IsNone(item.url) \/ Val(item.url) = ""
      THEN Skipped("no_url", FALSE, TRUE)
      ELSE [disposition |-> "upserted", marks_stop |-> FALSE, classified |-> TRUE,
            processed |-> TRUE,
            upsert |-> Some(upsert_article(rows,
                         ArticleOfItem(item, Val(article_time), matched, local, llm),
                         now))]

(***************************************************************************)
(* The feed and the other inputs of a pipeline run.                        *)
(***************************************************************************)
Item(title, description, url, time) ==
  [title |-> Some(title), description |-> description, url |-> url,
   thumbnail |-> None, extra |-> None, time |-> time]

\* Story "bug": ItemX, and ItemY, older, under another url, the same story in
\* other words (its time is a string of digits).
ItemX == Item(TxtBug, Some(TxtX), Some("a"), IntTime(88000))
ItemY == Item(TxtBug, Some(TxtW), Some("b"), StrTime(<<"8", "7", "0", "0", "0">>))
\* Another story
ItemL == Item(TxtLeak, Some(TxtLost), Some("d"), IntTime(88500))
\* No keyword in its text
ItemN == Item(TxtNews, Some(TxtX), Some("e"), IntTime(87200))
\* A keyword in another case, no url, the newest of all
ItemU == Item(TxtBugU, None, None, IntTime(89500))
\* A time that is no number
ItemT == Item(TxtBug, Some(TxtX), Some("a"), StrTime(<<"8", "x">>))

Items == {ItemX, ItemY, ItemL, ItemN, ItemU, ItemT}

\* The item lists of a page: at most MaxPageLen items
ItemLists == UNION {[1..n -> Items] : n \in 0..MaxPageLen}

\* The values of "totalpage" in a payload: absent, or the page is the last
TotalPages == {None, Some(1)}

\* The payloads the search returns for one page
Payloads ==
  {[items |-> Some(l), totalpage |-> t] : l \in ItemLists, t \in TotalPages}
  \cup {[items |-> None, totalpage |-> None]}

EmptyPage == [items |-> Some(<<>>), totalpage |-> None]

\* negative_keywords
Keywords == <<TxtBug, TxtLeak>>

\* min_timestamp: not passed, or 00:24:10 of the first day
MinTimestamps == {None, Some(87500)}

\* What the two classifiers meet for a text: the sentiment SnowNLP returns
\* (None: it raises), the api key and the response of the LLM service.  Either
\* both work, or SnowNLP raises and the LLM service fails in one of its ways.
ClassifierCases ==
  {<<Some(30), "token", Answer(Some("negative"), Number(90))>>}
  \cup {<<None, "token", r>> : r \in FailingResponses}

\* What the classifiers answer for a text: the sentiment, the label and
\* confidence of LLMClassifier.classify, and the exception it raised
ReplyOf(sentiment, llm) == <<sentiment, <<llm.label, llm.confidence>>, llm.raised>>
ClassifierReplies ==
  {ReplyOf(Sentiment(c[1]), LLMClassify(c[2], <<c[3]>>)) : c \in ClassifierCases}

(***************************************************************************)
(* Inputs of the direct calls of upsert_article.                           *)
(***************************************************************************)
\* The times the clock shows: 01:00:00 of two consecutive UTC days.
NowValues == <<90000, 176400>>

\* Story P under url a, once with every column filled and once with every
\* nullable column empty.
ArticleFull ==
  [NewsArticle("a", TxtNews, Some(TxtX), Some(FpP), 88000) EXCEPT
     !.thumbnail = Some(TxtX), !.extra = Some(TxtW),
     !.matched_keywords = Some(TxtBug), !.local_sentiment_score = Some(30),
     !.local_is_negative = Some(TRUE), !.llm_classification = Some("negative"),
     !.llm_confidence = Some(90), !.reason = Some(TxtLost),
     !.raw_payload = [EmptyDict EXCEPT !.url = Some("a")]]

ArticleBare == NewsArticle("a", TxtLeak, None, Some(FpP), 87000)

\* Story P again under url n, at distance 24 of the fingerprint of story P
ArticleNear == NewsArticle("n", TxtNews, Some(TxtX), Some(FpP24), 88000)

\* Nothing to fingerprint, under the url of story P
ArticleNoText == NewsArticle("a", <<>>, None, None, 88000)

\* The candidates of the calls that exercise the merge
MergeInputs ==
  {ArticleFull, ArticleBare, ArticleNear, ArticleNoText,
   \* another story, far from P, and the fingerprint of P under its url
   NewsArticle("g", TxtNews, Some(TxtX), Some(FpG), 89000),
   NewsArticle("g", TxtNews, Some(TxtX), Some(FpP), 88000)}

\* The candidates of the calls that exercise the locator
LocateInputs ==
  {NewsArticle("a", TxtNews, Some(TxtX), Some(FpP), 88000),
   ArticleNear, ArticleNoText,
   \* just beyond story P (distance 25), one bit from ArticleNear
   NewsArticle("m", TxtNews, Some(TxtX), Some(FpP25), 88000),
   \* two more stories, far from P and from each other
   NewsArticle("g", TxtNews, Some(TxtX), Some(FpG), 88000),
   NewsArticle("b", TxtBug, Some(TxtX), None, 88000),
   \* the fingerprint of story P under the url of story G
   NewsArticle("g", TxtNews, Some(TxtX), Some(FpP), 88000)}

\* The candidates of the calls of bulk_upsert_articles
BulkInputs ==
  {NewsArticle("a", TxtNews, Some(TxtX), Some(FpP), 88000),
   ArticleNear, ArticleNoText,
   NewsArticle("g", TxtNews, Some(TxtX), Some(FpP), 88000)}

VARIABLES
  store,    \* the rows of news_articles
  clock,    \* datetime.utcnow()
  lastOp,   \* the last call made from outside a run, or of upsert_article in
            \* a run: its input, the rows before it and what it returned; for
            \* TophubClient._call, the call in progress
  run,      \* the pipeline run in progress, or the last one
  prev,     \* the run that the run in progress replays, if it replays one
  lastItem, \* the feed item the run evaluated last, and what became of it
  running   \* the calls of run_pipeline made by the triggers, in the order
            \* they were made: what made the call, and whether it is executing

vars == <<store, clock, lastOp, run, prev, lastItem, running>>

NoOp == [kind |-> "none"]

IdleRun ==
  [pc |-> "idle", number |-> 0, replay |-> FALSE, feed |-> <<>>,
   payload |-> EmptyPage, min_timestamp |-> None, now |-> 0,
   last_timestamp |-> None, effective_min_timestamp |-> None,
   page |-> 0, idx |-> 0, stop_paging |-> FALSE, revealed |-> 0, revealed_items |-> 0,
   fetched_items |-> 0, processed_items |-> 0,
   inserted_count |-> 0, updated_count |-> 0, start |-> <<>>,
   committed |-> <<>>, raised |-> ""]

Init ==
  /\ store = <<>>
  /\ clock = NowValues[1]
  /\ lastOp = NoOp
  /\ run = IdleRun
  /\ prev = NoOp
  /\ lastItem = NoOp
  /\ running = <<>>

Resting == run.pc \in {"idle", "done", "failed"}

\* Time passes (the model lets it pass between the runs and the calls).
Tick ==
  /\ Resting
  /\ \E k \in 1..(Len(NowValues) - 1) :
       /\ clock = NowValues[k]
       /\ clock' = NowValues[k + 1]
  /\ UNCHANGED <<store, lastOp, run, prev, lastItem, running>>

\* with session_scope() as session: upsert_article(session, article)
UpsertCall(article) ==
  \E r \in {upsert_article(store, article, clock)} :
      /\ Len(r.rows) <= MaxStore
      /\ store' = r.rows
      /\ lastOp' = [kind |-> "upsert", input |-> article, article |-> r.article,
                    before |-> store, located |-> r.located,
                    inserted |-> r.inserted, updated |-> r.updated,
                    raised |-> r.raised]
      /\ UNCHANGED <<clock, run, prev, lastItem, running>>

\* One call of bulk_upsert_articles in a session of its own (session_scope
\* commits what the call flushed, and rolls back when it raises)
BulkUpsertCall(articles) ==
  \E r \in {bulk_upsert_articles(store, store, <<>>, articles, 0, 0, clock)} :
      /\ Len(r.rows) <= MaxStore
      /\ store' = r.rows
      /\ lastOp' = [kind |-> "bulk", articles |-> articles, before |-> store,
                    now |-> clock, inserted |-> r.inserted, updated |-> r.updated,
                    raised |-> r.raised]
      /\ UNCHANGED <<clock, run, prev, lastItem, running>>

\* run_pipeline(min_timestamp=...) up to the first search (lines 39-77).  With
\* replay the feed answers this run as it answered the run before.
StartRun(min_timestamp, replay) ==
  /\ Resting
  /\ run.number < MaxRuns
  /\ replay => run.pc # "idle" /\ min_timestamp = run.min_timestamp
  /\ LET last_timestamp == get_latest_timestamp(store)
     IN  run' = [IdleRun EXCEPT
                   !.pc = "fetch", !.number = run.number + 1, !.replay = replay,
                   !.feed = IF replay THEN run.feed ELSE <<>>,
                   !.min_timestamp = min_timestamp, !.now = clock,
                   !.last_timestamp = last_timestamp,
                   !.effective_min_timestamp =
                      EffectiveMinTimestamp(min_timestamp, last_timestamp, clock),
                   !.page = 1, !.start = store, !.committed = store,
                   !.revealed = run.revealed,
                   !.revealed_items = run.revealed_items]
  /\ prev' = IF ~replay THEN NoOp
             ELSE [kind |-> "run", completed |-> run.pc = "done",
                   feed |-> run.feed, min_timestamp |-> run.min_timestamp,
                   inserted |-> run.inserted_count, updated |-> run.updated_count,
                   fetched |-> run.fetched_items, processed |-> run.processed_items]
  /\ lastOp' = NoOp
  /\ lastItem' = NoOp
  /\ UNCHANGED <<store, clock, running>>

\* The payloads client.search may return for the page the run asks for, out
\* of those given
Serving(payloads) ==
  IF run.replay
  THEN {IF run.page <= Len(run.feed) THEN run.feed[run.page] ELSE EmptyPage}
  ELSE IF run.revealed >= MaxPages THEN {EmptyPage}
  ELSE {p \in payloads :
          Len(_extract_items(p)) <= MaxItems - run.revealed_items}

\* client.search(...) returns one of the payloads served (lines 80-90)
Fetch(served) ==
  /\ run.pc = "fetch"
  /\ \E payload \in served :
       run' = [run EXCEPT
                 !.payload = payload,
                 !.feed = IF run.replay THEN @ ELSE Append(@, payload),
                 !.revealed = IF run.replay \/ run.revealed >= MaxPages
                              THEN @ ELSE @ + 1,
                 !.revealed_items = IF run.replay THEN @
                                    ELSE @ + Len(_extract_items(payload)),
                 !.pc = IF _extract_items(payload) = <<>> THEN "done" ELSE "items",
                 !.committed = IF _extract_items(payload) = <<>> THEN store ELSE @,
                 !.idx = 1, !.stop_paging = FALSE]
  /\ UNCHANGED <<store, clock, lastOp, prev, lastItem, running>>

FetchPage == Fetch(Serving(Payloads))

\* The exceptions client.search may raise (TophubClient._call)
SearchFailures == {"ReadTimeout", "HTTPError", "JSONDecodeError", "RuntimeError"}

\* client.search(...) raises: nothing in run_pipeline catches the exception,
\* which leaves it through session_scope; session_scope rolls back what is
\* not committed and raises it again
FetchFails ==
  /\ run.pc = "fetch"
  /\ \E exc \in SearchFailures :
       run' = [run EXCEPT !.pc = "failed", !.raised = exc]
  /\ store' = run.committed
  /\ UNCHANGED <<clock, lastOp, prev, lastItem, running>>

\* Mutant of CommitAfterItem: nothing is committed before the run ends.
CommitAtEnd(committed, rows, inserted, updated) == committed

\* if inserted or updated: session.commit() -- the rows as of the last commit
CommitAfterItem(committed, rows, inserted, updated) ==
  IF inserted \/ updated THEN rows ELSE committed

\* One pass of the loop over the items of the page (lines 91-161)
ProcessItem ==
  /\ run.pc = "items"
  /\ run.idx <= Len(_extract_items(run.payload))
  /\ \E reply \in ClassifierReplies, item \in {_extract_items(run.payload)[run.idx]} :
     \E e \in {EvaluateItem(store, run.last_timestamp, run.effective_min_timestamp,
                             Keywords, item, reply[1], reply[2], run.now)} :
       LET escalated == e.classified /\ reply[3] # ""
           called == ~escalated /\ ~IsNone(e.upsert)
           r == Val(e.upsert)
           raised == called /\ r.raised # ""
       IN  /\ called => Len(r.rows) <= MaxStore
           /\ store' = IF escalated \/ raised THEN run.committed
                        ELSE IF called THEN r.rows ELSE store
           /\ run' = [run EXCEPT
                        !.pc = IF escalated \/ raised THEN "failed" ELSE @,
                        !.raised = IF escalated THEN reply[3]
                                   ELSE IF raised THEN r.raised ELSE @,
                        !.committed =
                           IF called /\ ~raised
                           THEN CommitAfterItem(@, r.rows, r.inserted, r.updated)
                           ELSE @,
                        !.idx = @ + 1,
                        !.stop_paging = @ \/ e.marks_stop,
                        !.fetched_items = @ + 1,
                        !.processed_items = IF e.processed /\ ~escalated
                                            THEN @ + 1 ELSE @,
                        !.inserted_count = IF called /\ r.inserted THEN @ + 1 ELSE @,
                        !.updated_count = IF called /\ r.updated THEN @ + 1 ELSE @]
           /\ lastOp' = IF called
                        THEN [kind |-> "upsert", input |-> r.article,
                              article |-> r.article, before |-> store,
                              located |-> r.located, inserted |-> r.inserted,
                              updated |-> r.updated, raised |-> r.raised]
                        ELSE NoOp
           /\ lastItem' = [kind |-> "item", item |-> item, page |-> run.page,
                           idx |-> run.idx, before |-> store,
                           processed_before |-> run.processed_items,
                           disposition |-> e.disposition,
                           marks_stop |-> e.marks_stop,
                           classified |-> e.classified,
                           reply |-> IF e.classified THEN <<reply>> ELSE <<>>]
  /\ UNCHANGED <<clock, prev, running>>

\* Mutant of EndPage: stop_paging does not end the loop over the pages.
EndPageIgnoringStop ==
  /\ run.pc = "items"
  /\ run.idx > Len(_extract_items(run.payload))
  /\ LET total_pages == _extract_total_pages(run.payload)
         ends == ~IsNone(total_pages) /\ run.page >= Val(total_pages)
     IN  run' = [run EXCEPT !.pc = IF ends THEN "done" ELSE "fetch",
                            !.page = IF ends THEN @ ELSE @ + 1]
  /\ UNCHANGED <<store, clock, lastOp, prev, lastItem, running>>

\* After the last item of the page (lines 162-168), and the return of the
\* statistics when the loop ends
EndPage ==
  /\ run.pc = "items"
  /\ run.idx > Len(_extract_items(run.payload))
  /\ LET total_pages == _extract_total_pages(run.payload)
         ends == \/ run.stop_paging
                 \/ ~IsNone(total_pages) /\ run.page >= Val(total_pages)
     IN  run' = [run EXCEPT !.pc = IF ends THEN "done" ELSE "fetch",
                            !.page = IF ends THEN @ ELSE @ + 1,
                            !.committed = IF ends THEN store ELSE @]
  /\ UNCHANGED <<store, clock, lastOp, prev, lastItem, running>>

Next ==
  \/ Tick
  \/ \E min_timestamp \in MinTimestamps, replay \in BOOLEAN :
       StartRun(min_timestamp, replay)
  \/ FetchPage
  \/ FetchFails
  \/ ProcessItem
  \/ EndPage

Spec == Init /\ [][Next]_vars

SpecUpsert ==
  Init /\ [][\/ Tick
             \/ \E article \in MergeInputs : UpsertCall(article)]_vars

SpecLocate == Init /\ [][\E article \in LocateInputs : UpsertCall(article)]_vars

\* Calls of bulk_upsert_articles with lists of one or two candidates, among
\* them two of one url, two of one fingerprint and two of close fingerprints
SpecBulk ==
  Init /\ [][\E first \in BulkInputs, rest \in {<<>>} \cup {<<a>> : a \in BulkInputs} :
               BulkUpsertCall(<<first>> \o rest)]_vars

\* Runs over feeds whose pages report "totalpage" in every way: absent, the
\* ints 1, 2 and 3, and the str "2"; the pages hold no list, no item, one
\* item, or two.  One item is as old as the min_timestamp that may be passed.
SpecPaging ==
  Init /\ [][\/ \E min_timestamp \in MinTimestamps : StartRun(min_timestamp, FALSE)
              \/ Fetch(Serving(
                    {[items |-> l, totalpage |-> t] :
                       l \in {None, Some(<<>>), Some(<<ItemX>>), Some(<<ItemY>>),
                              Some(<<ItemL>>), Some(<<ItemT>>), Some(<<ItemY, ItemL>>),
                              Some(<<Item(TxtLeak, Some(TxtLost), Some("f"), IntTime(87500))>>)},
                       t \in {None, Some(1), Some(2), Some(3), StrTotal("2")}}))
              \/ ProcessItem
              \/ EndPage]_vars

(***************************************************************************)
(* Calls of match_keywords.                                                *)
(***************************************************************************)
\* match_keywords(text, keywords)
MatchCall(text, keywords) ==
  /\ lastOp' = [kind |-> "match", text |-> text, keywords |-> keywords,
                matched |-> match_keywords(text, keywords)]
  /\ UNCHANGED <<store, clock, run, prev, lastItem, running>>

\* The calls: three texts, and the lists of at most three keywords, among
\* them a keyword in capitals, one with blanks around it, an empty one, a
\* blank one, and one that occurs in no text
SpecMatch ==
  Init /\ [][\E text \in {TxtBugU, <<"a", " ", "b", "u", "g">>,
                           TxtLeak \o <<" ">> \o TxtBugU},
                keywords \in UNION {[1..n -> {TxtBugU, <<" ">> \o TxtBug \o <<" ">>,
                                               TxtLeak, TxtNews, <<>>, <<" ">>}] :
                                      n \in 0..3} :
              MatchCall(text, keywords)]_vars

(***************************************************************************)
(* Runs against a feed that need not end.                                  *)
(***************************************************************************)
\* The page number and the counters of a run are counted up to MaxCount; a
\* greater value is kept as MaxCount.
MaxCount == 3

\* One pass of the loop over the pages (lines 78-168) for a page of at most
\* one item: the search returns the payload, the item goes through the body of
\* the loop over the items, and the pass ends the run or leads to the request
\* of the next page.
LoopPass(payload) ==
  /\ run.pc = "fetch"
  /\ IF _extract_items(payload) = <<>>
     THEN /\ run' = [run EXCEPT !.payload = payload, !.pc = "done", !.idx = 1,
                                !.stop_paging = FALSE, !.committed = store]
          /\ UNCHANGED <<store, lastOp, lastItem>>
     ELSE \E reply \in {c \in ClassifierReplies : c[3] = ""},
             item \in {_extract_items(payload)[1]} :
          \E e \in {EvaluateItem(store, run.last_timestamp, run.effective_min_timestamp,
                                  Keywords, item, reply[1], reply[2], run.now)} :
            LET Counted(n) == IF n >= MaxCount THEN MaxCount ELSE n
                called == ~IsNone(e.upsert)
                r == Val(e.upsert)
                raised == called /\ r.raised # ""
                total_pages == _extract_total_pages(payload)
                ends == \/ e.marks_stop
                        \/ ~IsNone(total_pages) /\ run.page >= Val(total_pages)
            IN  /\ called => Len(r.rows) <= MaxStore
                /\ store' = IF raised THEN run.committed
                             ELSE IF called THEN r.rows ELSE store
                /\ run' = [run EXCEPT
                             !.payload = payload,
                             !.pc = IF raised THEN "failed"
                                    ELSE IF ends THEN "done" ELSE "fetch",
                             !.raised = IF raised THEN r.raised ELSE @,
                             !.committed = IF raised THEN @
                                           ELSE IF called THEN r.rows ELSE store,
                             !.page = IF raised \/ ends THEN @ ELSE Counted(@ + 1),
                             !.idx = 2,
                             !.stop_paging = e.marks_stop,
                             !.fetched_items = Counted(@ + 1),
                             !.processed_items = IF e.processed THEN Counted(@ + 1) ELSE @,
                             !.inserted_count = IF called /\ r.inserted
                                                THEN Counted(@ + 1) ELSE @,
                             !.updated_count = IF called /\ r.updated
                                               THEN Counted(@ + 1) ELSE @]
                /\ lastOp' = IF called
                             THEN [kind |-> "upsert", input |-> r.article,
                                   article |-> r.article, before |-> store,
                                   located |-> r.located, inserted |-> r.inserted,
                                   updated |-> r.updated, raised |-> r.raised]
                             ELSE NoOp
                /\ lastItem' = [kind |-> "item", item |-> item, page |-> run.page,
                                idx |-> 1, before |-> store,
                                processed_before |-> run.processed_items,
                                disposition |-> e.disposition,
                                marks_stop |-> e.marks_stop,
                                classified |-> e.classified,
                                reply |-> IF e.classified THEN <<reply>> ELSE <<>>]
  /\ UNCHANGED <<clock, prev, running>>

\* A search of a run ends: the feed answers the request, whatever the page
\* number, with a page of no item or of one item, with "totalpage" absent or
\* 2, or the search fails.
SearchEnds ==
  \/ \E payload \in {[items |-> l, totalpage |-> t] :
                         l \in {Some(<<>>), Some(<<ItemX>>), Some(<<ItemL>>), Some(<<ItemN>>)},
                         t \in {None, Some(2)}} :
       LoopPass(payload)
  \/ FetchFails

\* Runs against such a feed; each search returns or fails in the end.
SpecEndless ==
  /\ Init
  /\ [][\/ \E min_timestamp \in MinTimestamps : StartRun(min_timestamp, FALSE)
        \/ SearchEnds]_vars
  /\ WF_vars(SearchEnds)

(***************************************************************************)
(* Calls of _compute_content_fingerprint, one after the other.             *)
(***************************************************************************)
\* _compute_content_fingerprint(article) for an article of this title and
\* description; the call before it is kept in prev
FingerprintCall(title, description) ==
  /\ \E fingerprint \in {_compute_content_fingerprint(
                             NewsArticle("a", title, description, None, 88000))} :
       lastOp' = [kind |-> "fingerprint", title |-> title,
                  description |-> description, fingerprint |-> fingerprint]
  /\ prev' = lastOp
  /\ UNCHANGED <<store, clock, run, lastItem, running>>

\* The articles fingerprinted have titles and descriptions of the letters a
\* and b, with spaces before, between and after the words
SpecFingerprint ==
  Init /\ [][\E title \in {<<>>, <<" ">>, <<"a", " ">>, <<" ", "b">>, <<"b", "b">>,
                            <<"a", " ", " ", "b">>},
                description \in {None, Some(<<>>), Some(<<" ", "b">>), Some(<<"b", "b">>)} :
               FingerprintCall(title, description)]_vars

(***************************************************************************)
(* A run that is not alone: another session inserts the url of the item.   *)
(***************************************************************************)
\* One pass of the loop over the items in which upsert_article finds no
\* record to merge with, and another session commits a record under the
\* url of the item (with a reason of its own) before session.flush() of line
\* 220: the INSERT violates uq_news_url, IntegrityError leaves upsert_article
\* and run_pipeline, and session_scope rolls back to the last commit
ProcessItemRaced ==
  /\ run.pc = "items"
  /\ run.idx <= Len(_extract_items(run.payload))
  /\ Len(store) < MaxStore
  /\ \E reply \in ClassifierReplies, item \in {_extract_items(run.payload)[run.idx]} :
     \E e \in {EvaluateItem(store, run.last_timestamp, run.effective_min_timestamp,
                             Keywords, item, reply[1], reply[2], run.now)} :
       /\ ~IsNone(e.upsert)
       /\ Val(e.upsert).inserted
       /\ store' = InsertRow(run.committed,
                             [Val(e.upsert).article EXCEPT !.reason = None], clock)
       /\ run' = [run EXCEPT !.pc = "failed", !.raised = "IntegrityError",
                             !.idx = @ + 1, !.fetched_items = @ + 1,
                             !.processed_items = @ + 1]
       /\ lastOp' = [kind |-> "upsert", input |-> Val(e.upsert).article,
                     article |-> Val(e.upsert).article, before |-> store,
                     located |-> Val(e.upsert).located, inserted |-> FALSE,
                     updated |-> FALSE, raised |-> "IntegrityError"]
       /\ lastItem' = [kind |-> "item", item |-> item, page |-> run.page,
                       idx |-> run.idx, before |-> store,
                       processed_before |-> run.processed_items,
                       disposition |-> e.disposition, marks_stop |-> e.marks_stop,
                       classified |-> e.classified, reply |-> <<reply>>]
  /\ UNCHANGED <<clock, prev, running>>

SpecRace == Init /\ [][Next \/ ProcessItemRaced]_vars

(***************************************************************************)
(* Maintenance between the runs: the command clear-today.                  *)
(***************************************************************************)
\* Mutant of delete_articles_since: a record of the very time since stays.
DeleteAfter(rows, since) ==
  [rows |-> SelectSeq(rows, LAMBDA row : ~(row.source_timestamp > since)),
   rowcount |-> Cardinality({i \in DOMAIN rows : rows[i].source_timestamp > since})]

\* DELETE FROM news_articles WHERE source_timestamp >= since: the rows left
\* and the rowcount of the statement, which the function returns
delete_articles_since(rows, since) ==
  [rows |-> SelectSeq(rows, LAMBDA row : ~(row.source_timestamp >= since)),
   rowcount |-> Cardinality({i \in DOMAIN rows : rows[i].source_timestamp >= since})]

\* with session_scope() as session: delete_articles_since(session, since)
DeleteCall(since) ==
  /\ \E r \in {delete_articles_since(store, since)} :
       /\ store' = r.rows
       /\ lastOp' = [kind |-> "delete", since |-> since, before |-> store,
                     removed |-> r.rowcount]
  /\ UNCHANGED <<clock, run, prev, lastItem, running>>

\* The command clear-today (cli.py): delete_articles_since from the start of
\* the UTC day on, in a session of its own
ClearToday ==
  /\ Resting
  /\ DeleteCall(StartOfDay(clock))

\* The highest id a record has when a delete is called in SpecDelete
MaxId == 4

\* Calls of upsert_article and of delete_articles_since, the latter from the
\* time of a stored record on, or from a time between those of the records
SpecDelete ==
  Init /\ [][\/ \E article \in MergeInputs : UpsertCall(article)
             \/ \E since \in {88000, 88500} :
                  NextId(store) <= MaxId + 1 /\ DeleteCall(since)]_vars

SpecMaintain == Init /\ [][Next \/ ClearToday]_vars

(***************************************************************************)
(* The triggers of run_pipeline: the interval job of the scheduler, the    *)
(* POST /run endpoint of the web application and the command fetch.        *)
(***************************************************************************)
\* The most calls of run_pipeline the triggers make
MaxTriggered == 4

\* The calls of run_pipeline a trigger has executing
Executing(trigger) ==
  {i \in DOMAIN running : running[i].trigger = trigger /\ running[i].executing}

\* A trigger calls run_pipeline.  The scheduler leaves out a run of its job
\* that comes due while max_instances=1 instance of the job is executing;
\* run_job of the web application (a thread per request) and the command
\* fetch (a process per command) call run_pipeline whatever is executing.
Triggered(trigger) ==
  /\ Len(running) < MaxTriggered
  /\ trigger = "scheduler" => Cardinality(Executing(trigger)) < 1
  /\ running' = Append(running, [trigger |-> trigger, executing |-> TRUE])
  /\ UNCHANGED <<store, clock, lastOp, run, prev, lastItem>>

\* A call of run_pipeline returns or raises
RunReturns ==
  /\ \E i \in DOMAIN running :
       /\ running[i].executing
       /\ running' = [running EXCEPT ![i].executing = FALSE]
  /\ UNCHANGED <<store, clock, lastOp, run, prev, lastItem>>

SpecTrigger ==
  Init /\ [][\/ \E trigger \in {"scheduler", "web", "cli"} : Triggered(trigger)
             \/ RunReturns]_vars

(***************************************************************************)
(* tophub_client.py: TophubClient._call, one pass of its loop per step.    *)
(***************************************************************************)
\* The most retries a client of the model is configured with
MaxRetryLimit == 3

\* max_retries, backoff_base and backoff_cap of the clients (the delays in
\* seconds; time.sleep refuses a negative one)
RetryLimits == 0..MaxRetryLimit
BackoffBases == {0, 1, 3}
BackoffCaps == {2, 5, 30}

\* What one requests.get(...) and the three lines after it may do: a JSON
\* object comes back ("ok"); JSON that is no object; no response in time; a
\* bad status (raise_for_status); a body that is no JSON
RequestOutcomes == {"ok", "not_mapping", "timeout", "http_error", "bad_json"}

\* Whether the except clause of line 46 catches what the outcome raises.
\* response.json() raises requests.JSONDecodeError, a RequestException, from
\* requests 2.27 on, and a plain ValueError before: both builds are possible.
CaughtAsRequestException(outcome) ==
  IF outcome \in {"timeout", "http_error"} THEN {TRUE}
  ELSE IF outcome = "bad_json" THEN {TRUE, FALSE}
  ELSE {FALSE}

\* The name of the exception an outcome raises
ExceptionOf(outcome) ==
  IF outcome = "timeout" THEN "ReadTimeout"
  ELSE IF outcome = "http_error" THEN "HTTPError"
  ELSE IF outcome = "bad_json" THEN "JSONDecodeError"
  ELSE "RuntimeError"

\* Mutant of RetriesExhausted: one more retry is granted.
RetriesExhaustedLate(attempt, max_retries) == attempt > max_retries

\* if attempt >= self.max_retries: raise
RetriesExhausted(attempt, max_retries) == attempt >= max_retries

\* Mutant of Backoff: the delay is not capped.
BackoffUncapped(backoff_base, backoff_cap, attempt) == backoff_base * (2 ^ attempt)

\* delay = min(self.backoff_base * (2**attempt), self.backoff_cap)
Backoff(backoff_base, backoff_cap, attempt) ==
  IF backoff_base * (2 ^ attempt) <= backoff_cap
  THEN backoff_base * (2 ^ attempt) ELSE backoff_cap

\* No call of the client is in progress
NoCallInProgress ==
  lastOp.kind = "none" \/ (lastOp.kind = "search" /\ lastOp.pc # "request")

\* client.search(keyword, page, size) is called: _call up to the loop (lines 30-32)
SearchStart(max_retries, backoff_base, backoff_cap) ==
  /\ NoCallInProgress
  /\ lastOp' = [kind |-> "search", pc |-> "request", max_retries |-> max_retries,
                backoff_base |-> backoff_base, backoff_cap |-> backoff_cap,
                attempt |-> 0, outcomes |-> <<>>, waits |-> <<>>,
                payload |-> None, raised |-> ""]
  /\ UNCHANGED <<store, clock, run, prev, lastItem, running>>

\* One pass of the loop of _call (lines 33-57): the request, and what follows
\* from its outcome.  The payload of the n-th request is called n.
SearchAttempt(outcome) ==
  /\ lastOp.kind = "search"
  /\ lastOp.pc = "request"
  /\ \E caught \in CaughtAsRequestException(outcome) :
       lastOp' =
         IF outcome = "ok"
         THEN [lastOp EXCEPT !.outcomes = Append(@, outcome), !.pc = "returned",
                             !.payload = Some(Len(lastOp.outcomes) + 1)]
         ELSE IF ~caught \/ RetriesExhausted(lastOp.attempt, lastOp.max_retries)
         THEN [lastOp EXCEPT !.outcomes = Append(@, outcome), !.pc = "raised",
                             !.raised = ExceptionOf(outcome)]
         ELSE [lastOp EXCEPT
                 !.outcomes = Append(@, outcome),
                 !.waits = Append(@, Backoff(lastOp.backoff_base, lastOp.backoff_cap,
                                             lastOp.attempt)),
                 !.attempt = @ + 1]
  /\ UNCHANGED <<store, clock, run, prev, lastItem, running>>

SpecSearch ==
  Init /\ [][\/ \E max_retries \in RetryLimits, backoff_base \in BackoffBases,
                   backoff_cap \in BackoffCaps :
                  SearchStart(max_retries, backoff_base, backoff_cap)
             \/ \E outcome \in RequestOutcomes : SearchAttempt(outcome)]_vars

(***************************************************************************)
(* classification.py: a classifier is constructed and asked once.          *)
(***************************************************************************)
\* The keyword arguments LLMClassifier is constructed with
ConstructorCalls ==
  {RequiredParameters, InitParameters, InitParameters \cup {"max_retries", "retry_delay"}}

ApiKeys == {"", "token"}

\* What the LLM service has ready for the first post of a call and, in some
\* cases, for a second one
ResponseSequences ==
  {<<r>> : r \in LLMResponses}
  \cup {<<r, q>> : r \in LLMResponses,
                   q \in {Failure("timeout"), Answer(Some("negative"), Number(90))}}

\* LLMClassifier(**kwargs).classify(text), where the classifier holds api_key
\* if it is constructed
ClassifyCall(kwargs, api_key, responses) ==
  /\ \E init \in {LLMClassifierInit(kwargs)}, c \in {LLMClassify(api_key, responses)} :
       lastOp' = [kind |-> "classify", kwargs |-> kwargs, api_key |-> api_key,
                  responses |-> responses,
                  posts |-> IF init = "" THEN c.posts ELSE 0,
                  result |-> IF init = "" /\ c.raised = ""
                             THEN <<c.label, c.confidence>> ELSE <<>>,
                  raised |-> IF init # "" THEN init ELSE c.raised]
  /\ UNCHANGED <<store, clock, run, prev, lastItem, running>>

SpecClassify ==
  Init /\ [][\E kwargs \in ConstructorCalls, api_key \in ApiKeys,
                 responses \in ResponseSequences :
                ClassifyCall(kwargs, api_key, responses)]_vars

(***************************************************************************)
(* run_pipeline(negative_keywords=...) on a feed of one page with one item. *)
(***************************************************************************)
\* A whole run over a feed of one page that holds one item (lines 57-183):
\* last_timestamp and the floor are read from the store, the item goes
\* through the body of the loop, the session commits or rolls back.
RunOfOne(keywords, item) ==
  /\ Resting
  /\ \E reply \in {r \in ClassifierReplies : r[3] = ""} :
     \E e \in {EvaluateItem(store, get_latest_timestamp(store),
                             EffectiveMinTimestamp(None, get_latest_timestamp(store), clock),
                             keywords, item, reply[1], reply[2], clock)} :
       LET called == ~IsNone(e.upsert)
           r == Val(e.upsert)
       IN  /\ called => Len(r.rows) <= MaxStore
           /\ store' = IF called /\ r.raised = "" THEN r.rows ELSE store
           /\ lastOp' = IF called
                        THEN [kind |-> "upsert", input |-> r.article,
                              article |-> r.article, before |-> store,
                              located |-> r.located, inserted |-> r.inserted,
                              updated |-> r.updated, raised |-> r.raised]
                        ELSE NoOp
           /\ lastItem' = [kind |-> "one", item |-> item, keywords |-> keywords,
                           before |-> store, disposition |-> e.disposition]
  /\ UNCHANGED <<clock, run, prev, running>>

\* The runs of one item: negative_keywords is the list of the settings or the
\* separator of extract_item_text alone; the items are those of the feed and
\* one whose title and description are blank but not empty, under the url of
\* ItemX and newer than it.
SpecOne ==
  Init /\ [][\/ \E keywords \in {Keywords, <<<<FullStop>>>>},
                   item \in Items \cup {Item(<<" ">>, Some(<<" ">>), Some("a"), IntTime(88200))} :
                   RunOfOne(keywords, item)
              \/ Tick]_vars

(***************************************************************************)
(* Vocabulary of the properties.  These definitions restate what the       *)
(* specification says in terms of the rows before and after a call; they   *)
(* use none of the operators that model the program above (the table of    *)
(* hex digits apart).                                                      *)
(***************************************************************************)
\* The 13 mutable fields the specification lists
SpecMutableFields ==
  {"title", "description", "thumbnail", "extra", "content_fingerprint",
   "source_timestamp", "matched_keywords", "local_sentiment_score",
   "local_is_negative", "llm_classification", "llm_confidence", "reason",
   "raw_payload"}

\* The last step was a call of upsert_article that returned
Upserted == lastOp.kind = "upsert" /\ lastOp.raised = ""

\* The call found an existing record and merged the candidate onto it
Merged == Upserted /\ lastOp.located.kind = "row"

\* The position of the matched record (the same before and after a merge)
MatchedPos == CHOOSE i \in DOMAIN lastOp.before : lastOp.before[i].id = lastOp.located.id

\* The bit of weight 2^b of a fingerprint of 16 hex digits
HexBit(hex, b) ==
  LET digit == hex[16 - (b \div 4)]
      value == CHOOSE v \in 0..15 : HexDigits[v + 1] = digit
  IN  (value \div (2 ^ (b % 4))) % 2

\* Hamming distance of two fingerprints
Hamming(hex_a, hex_b) ==
  Cardinality({b \in 0..63 : HexBit(hex_a, b) # HexBit(hex_b, b)})

\* The positions of the fingerprinted rows
Fingerprinted(rows) == {i \in DOMAIN rows : rows[i].content_fingerprint # None}

\* The recency window: the fingerprinted rows with fewer than
\* SIMHASH_CANDIDATE_LIMIT fingerprinted rows inserted after them
Window(rows) ==
  {i \in Fingerprinted(rows) :
     Cardinality({j \in Fingerprinted(rows) : rows[j].id > rows[i].id})
       < SIMHASH_CANDIDATE_LIMIT}

\* The rows with a fingerprint byte-identical to the candidate's
ExactMatches(rows, candidate) ==
  IF candidate.content_fingerprint = None \/ candidate.content_fingerprint = Some(<<>>)
  THEN {}
  ELSE {i \in DOMAIN rows : rows[i].content_fingerprint = candidate.content_fingerprint}

\* The least distance between the candidate and a row of the window
WindowDistance(rows, candidate, i) ==
  Hamming(candidate.content_fingerprint[1], rows[i].content_fingerprint[1])

\* The rows of the window at the least distance from the candidate, when that
\* distance is at most the given threshold
FuzzyMatches(rows, candidate, threshold) ==
  IF candidate.content_fingerprint = None \/ candidate.content_fingerprint = Some(<<>>)
  THEN {}
  ELSE {i \in Window(rows) :
          /\ WindowDistance(rows, candidate, i) <= threshold
          /\ \A j \in Window(rows) :
               WindowDistance(rows, candidate, i) <= WindowDistance(rows, candidate, j)}

\* The rows with the url of the candidate
UrlMatches(rows, candidate) == {i \in DOMAIN rows : rows[i].url = candidate.url}

(***************************************************************************)
(* upsert_article: result flags, merge and frame (SpecUpsert).             *)
(***************************************************************************)
\* C6: upsert_article returns (inserted=true, updated=false) and adds exactly
\* one record if and only if the locator found no match; when it found one it
\* returns inserted=false, and updated=true if and only if one of the 13
\* mutable fields differs between the candidate and the matched record; it
\* never returns (true, true).
C6_ResultFlags ==
  Upserted =>
    /\ (lastOp.located.kind = "none") <=>
         /\ lastOp.inserted /\ ~lastOp.updated
         /\ Len(store) = Len(lastOp.before) + 1
    /\ (lastOp.located.kind = "row") =>
         /\ ~lastOp.inserted
         /\ lastOp.updated <=>
              \E f \in SpecMutableFields :
                 lastOp.article[f] # lastOp.before[MatchedPos][f]
    /\ ~(lastOp.inserted /\ lastOp.updated)

\* C6 witness: a call that matched a record equal to the candidate in all 13
\* fields and returned (false, false), in a store that an insert and a
\* changing merge built.
C6_Witness ==
  /\ Merged
  /\ ~lastOp.inserted /\ ~lastOp.updated
  /\ \A f \in SpecMutableFields : lastOp.article[f] = lastOp.before[MatchedPos][f]
  /\ Len(store) >= 2

\* C7: after a merge every one of the 13 mutable fields of the stored record
\* equals the candidate's value, also when the candidate's value is absent.
C7_MergeEffect ==
  Merged =>
    \A f \in SpecMutableFields : store[MatchedPos][f] = lastOp.article[f]

\* C7 witness: a merge whose candidate has no thumbnail, no keywords and no
\* reason onto a record that had them.
C7_Witness ==
  /\ Merged
  /\ lastOp.before[MatchedPos].thumbnail # None
  /\ lastOp.before[MatchedPos].matched_keywords # None
  /\ lastOp.before[MatchedPos].reason # None
  /\ lastOp.article.thumbnail = None
  /\ lastOp.article.matched_keywords = None
  /\ lastOp.article.reason = None
  /\ store[MatchedPos].thumbnail = None

\* C8 as stated: a merge never changes the matched record's url, id or
\* fetched_at and creates no new row, and the merged candidate's own url is
\* stored nowhere.
C8_AsStated ==
  Merged =>
    /\ store[MatchedPos].url = lastOp.before[MatchedPos].url
    /\ store[MatchedPos].id = lastOp.before[MatchedPos].id
    /\ store[MatchedPos].fetched_at = lastOp.before[MatchedPos].fetched_at
    /\ Len(store) = Len(lastOp.before)
    /\ \A i \in DOMAIN store : store[i].url # lastOp.article.url

\* C8: a merge never changes the matched record's url, id or fetched_at,
\* creates no new row, and writes the candidate's url to the url of no record:
\* every record keeps its url, so the candidate's url is stored afterwards
\* only if it was the url of a record before the merge.
C8_MergeFrame ==
  Merged =>
    /\ store[MatchedPos].url = lastOp.before[MatchedPos].url
    /\ store[MatchedPos].id = lastOp.before[MatchedPos].id
    /\ store[MatchedPos].fetched_at = lastOp.before[MatchedPos].fetched_at
    /\ Len(store) = Len(lastOp.before)
    /\ \A i \in DOMAIN store :
         /\ store[i].url = lastOp.before[i].url
         /\ store[i].id = lastOp.before[i].id
         /\ store[i].fetched_at = lastOp.before[i].fetched_at

\* C8 witness: a merge, made on a later day than the insert of the matched
\* record, of a candidate with another url and with other field values.
C8_Witness ==
  /\ Merged
  /\ lastOp.updated
  /\ lastOp.article.url # lastOp.before[MatchedPos].url
  /\ clock # lastOp.before[MatchedPos].fetched_at
  /\ \A i \in DOMAIN store : store[i].url # lastOp.article.url

(***************************************************************************)
(* The duplicate locator (SpecLocate).                                     *)
(***************************************************************************)
\* C9: the locator returns (1) a record with a byte-identical fingerprint,
\* searched over the whole store; (2) otherwise the fuzzy match; (3)
\* otherwise, when no fingerprint match exists or the candidate has no
\* fingerprint, the record with the same url; (4) otherwise none.
C9_LocatorPrecedence ==
  Upserted =>
    LET rows == lastOp.before
        exact == ExactMatches(rows, lastOp.article)
        fuzzy == FuzzyMatches(rows, lastOp.article, 24)
        by_url == UrlMatches(rows, lastOp.article)
        found == lastOp.located.kind = "row"
    IN  /\ exact # {} => found /\ MatchedPos \in exact
        /\ exact = {} /\ fuzzy # {} => found /\ MatchedPos \in fuzzy
        /\ exact = {} /\ fuzzy = {} /\ by_url # {} => found /\ MatchedPos \in by_url
        /\ exact = {} /\ fuzzy = {} /\ by_url = {} => ~found

\* C9 witness: the candidate's fingerprint is that of record A, which lies
\* outside the recency window, its url is that of another record B, and the
\* locator returned A.
C9_Witness ==
  /\ Merged
  /\ MatchedPos \in ExactMatches(lastOp.before, lastOp.article)
  /\ MatchedPos \notin Window(lastOp.before)
  /\ \E j \in UrlMatches(lastOp.before, lastOp.article) : j # MatchedPos

\* C10: when no exact match exists, the fuzzy step returns a record of least
\* Hamming distance among the most recently inserted fingerprinted records
\* (SIMHASH_CANDIDATE_LIMIT of them) if and only if that distance is <= 24; a
\* candidate with no such record and with a url that is not stored is inserted
\* as a new record, also when a record within distance 24 lies outside the
\* window.
C10_FuzzyMatch ==
  ( /\ Upserted
    /\ lastOp.article.content_fingerprint # None
    /\ ExactMatches(lastOp.before, lastOp.article) = {} ) =>
    LET rows == lastOp.before
        near == {i \in Window(rows) : WindowDistance(rows, lastOp.article, i) <= 24}
        found == lastOp.located.kind = "row"
    IN  /\ near # {} =>
             /\ found
             /\ MatchedPos \in near
             /\ \A j \in Window(rows) :
                  WindowDistance(rows, lastOp.article, MatchedPos)
                    <= WindowDistance(rows, lastOp.article, j)
        /\ near = {} /\ found => MatchedPos \in UrlMatches(rows, lastOp.article)
        /\ near = {} /\ UrlMatches(rows, lastOp.article) = {} =>
             /\ ~found /\ lastOp.inserted
             /\ Len(store) = Len(rows) + 1
             /\ store[Len(store)].url = lastOp.article.url

\* C10 witness: a candidate within distance 24 of a record that lies outside
\* the window, and of no record inside it, was inserted as a new record.
C10_Witness ==
  /\ Upserted
  /\ lastOp.inserted
  /\ lastOp.article.content_fingerprint # None
  /\ \E i \in Fingerprinted(lastOp.before) \ Window(lastOp.before) :
       WindowDistance(lastOp.before, lastOp.article, i) <= 24
  /\ Len(store) = Len(lastOp.before) + 1

(***************************************************************************)
(* run_pipeline (Spec).                                                    *)
(***************************************************************************)
\* The run evaluated a feed item last
Evaluated == run.pc # "idle" /\ lastItem.kind = "item"

\* The run passed the item it evaluated last to upsert_article
Ingested == Evaluated /\ lastItem.disposition = "upserted" /\ lastOp.kind = "upsert"

\* The items of the page the last evaluated item is on
PageItems == _extract_items(run.feed[lastItem.page])

\* The timestamp of a feed item, None when it has none that can be read
ItemTime(item) == _parse_timestamp(item.time)

\* The start of the UTC day of a time given in seconds
DayStart(t) == (t \div 86400) * 86400

\* The concatenated title and description of a feed item
ItemWords(item) ==
  (IF item.title = None THEN <<>> ELSE item.title[1])
  \o (IF item.description = None THEN <<>> ELSE item.description[1])

\* The item's text contains one of the configured keywords
HasKeyword(item) ==
  \E k \in 1..Len(Keywords) : Contains(Lower(ItemWords(item)), Lower(Keywords[k]))

\* The item has a non-empty url
HasUrl(item) == item.url # None /\ item.url # Some("")

\* C1 as stated: when a run has completed and the pipeline has run again with
\* identical feed data and the same floor, the second run reports inserted=0
\* and processed=0.
C1_Idempotence ==
  ( /\ run.pc = "done"
    /\ run.replay
    /\ prev.kind = "run"
    /\ prev.completed
    /\ prev.feed = run.feed
    /\ prev.min_timestamp = run.min_timestamp ) =>
    /\ run.inserted_count = 0
    /\ run.processed_items = 0

\* C2: if the store holds at the start of a run a record R of the recency
\* window, and the run ingests one item with another url than R's, newer than
\* last_timestamp, not below the floor, and with a fingerprint within distance
\* 24 of R's, R being the closest record of the window, then R is updated in
\* place: the run counts updated=1 and inserted=0 and the store keeps its
\* number of rows.
C2_FuzzyCollapse ==
  (Ingested /\ run.processed_items = 1) =>
    LET rows == run.start
        candidate == lastOp.article
    IN  \A i \in Window(rows) :
          ( /\ rows[i].url # candidate.url
            /\ candidate.content_fingerprint # None
            /\ WindowDistance(rows, candidate, i) <= 24
            /\ \A j \in Window(rows) \ {i} :
                 WindowDistance(rows, candidate, i) < WindowDistance(rows, candidate, j) )
          => /\ lastOp.raised = ""
             /\ lastOp.located.kind = "row"
             /\ lastOp.located.id = rows[i].id
             /\ run.updated_count = 1
             /\ run.inserted_count = 0
             /\ Len(store) = Len(rows)
             /\ store[i].id = rows[i].id
             /\ store[i].url = rows[i].url
             /\ \A f \in SpecMutableFields : store[i][f] = candidate[f]

\* C2 witness: a completed run whose one ingested item, under a url that is
\* not stored, has a fingerprint that differs from that of a stored record in
\* at least 1 and at most 24 bits, and left the store with as many rows.
C2_Witness ==
  /\ Ingested
  /\ run.pc = "done"
  /\ run.processed_items = 1
  /\ run.updated_count = 1
  /\ UrlMatches(run.start, lastOp.article) = {}
  /\ lastOp.article.content_fingerprint # None
  /\ \E i \in Window(run.start) :
       /\ WindowDistance(run.start, lastOp.article, i) \in 1..24
       /\ \A j \in Window(run.start) \ {i} :
            WindowDistance(run.start, lastOp.article, i)
              < WindowDistance(run.start, lastOp.article, j)
  /\ Len(store) = Len(run.start)

\* The floor of the run: min_timestamp when passed, the start of the UTC day
\* of the run when none is passed and the store was empty at the start of the run
SpecFloor ==
  IF run.min_timestamp # None THEN run.min_timestamp
  ELSE IF run.start = <<>> THEN Some(DayStart(run.now)) ELSE None

\* The item has a timestamp <= last_timestamp
NotNewer(item) ==
  /\ run.last_timestamp # None
  /\ ItemTime(item) # None
  /\ ItemTime(item)[1] <= run.last_timestamp[1]

\* The item has a timestamp below the floor
BelowFloor(item) ==
  /\ SpecFloor # None
  /\ ItemTime(item) # None
  /\ ItemTime(item)[1] < SpecFloor[1]

\* The item has a timestamp newer than last_timestamp that passes the floor,
\* and passes the keyword filter
Qualifies(item) ==
  /\ ItemTime(item) # None
  /\ ~NotNewer(item)
  /\ ~BelowFloor(item)
  /\ HasKeyword(item)

\* Page p of the feed holds an item with a timestamp <= last_timestamp and,
\* later on the page, an item of the given kind
OldThenNew(p, Kind(_)) ==
  LET items == _extract_items(run.feed[p])
  IN  \E j, k \in DOMAIN items : j < k /\ NotNewer(items[j]) /\ Kind(items[k])

\* The last evaluated item comes on its page after an item with a timestamp
\* <= last_timestamp
AfterOldItem == \E j \in 1..(lastItem.idx - 1) : NotNewer(PageItems[j])

\* The candidate of the last call of upsert_article is stored
CandidateStored ==
  /\ lastOp.kind = "upsert" /\ lastOp.raised = ""
  /\ \E i \in DOMAIN store :
       \A f \in SpecMutableFields : store[i][f] = lastOp.article[f]

\* C3 as stated: in a run where last_timestamp is set, on a page that holds an
\* item with timestamp <= last_timestamp followed by an item with a newer
\* timestamp that passes the floor and the keyword filter, the newer item is
\* still upserted, and no further page is requested after that page.
C3_AsStated ==
  /\ (Evaluated /\ AfterOldItem /\ Qualifies(lastItem.item)) =>
        Ingested /\ CandidateStored
  /\ run.pc # "idle" =>
        \A p \in 1..Len(run.feed) : OldThenNew(p, Qualifies) => run.page <= p

\* An item that qualifies and has a non-empty url
QualifiesWithUrl(item) == Qualifies(item) /\ HasUrl(item)

\* C3: the same for a newer item that passes the floor and the keyword filter
\* and has a non-empty url: it is still upserted, and no further page is
\* requested after that page.
C3_StopAfterPage ==
  /\ (Evaluated /\ AfterOldItem /\ QualifiesWithUrl(lastItem.item)) =>
        Ingested /\ CandidateStored
  /\ run.pc # "idle" =>
        \A p \in 1..Len(run.feed) : OldThenNew(p, QualifiesWithUrl) => run.page <= p

\* C3 witness: a run ended on a page that reports no total of pages, after it
\* upserted the item that follows on that page an item with a timestamp
\* <= last_timestamp.
C3_Witness ==
  /\ Ingested /\ CandidateStored
  /\ AfterOldItem
  /\ QualifiesWithUrl(lastItem.item)
  /\ run.pc = "done"
  /\ run.page = lastItem.page
  /\ _extract_total_pages(run.feed[run.page]) = None
  /\ lastItem.idx = Len(PageItems)

\* The last evaluated item was left out: nothing was passed to
\* upsert_article, the store and the count of processed items are as before
Excluded ==
  /\ lastItem.disposition # "upserted"
  /\ lastOp.kind = "none"
  /\ store = lastItem.before
  /\ run.processed_items = lastItem.processed_before

\* The last evaluated item has a timestamp before 00:00:00 of the UTC day of the run
BeforeToday ==
  /\ ItemTime(lastItem.item) # None
  /\ ItemTime(lastItem.item)[1] < DayStart(run.now)

\* C4: if the store is empty at the start of the run and no min_timestamp is
\* passed, every item timestamped before 00:00:00 of the current UTC day is
\* excluded (never persisted, not counted in processed); if the store is not
\* empty or a min_timestamp is passed, no start-of-day floor is applied: an
\* item newer than last_timestamp, not before the min_timestamp passed, with a
\* keyword and a url is ingested whatever its day.
C4_DefaultFloor ==
  /\ ( /\ Evaluated
       /\ run.start = <<>> /\ run.min_timestamp = None
       /\ BeforeToday ) => Excluded
  /\ ( /\ Evaluated
       /\ run.start # <<>> \/ run.min_timestamp # None
       /\ ItemTime(lastItem.item) # None
       /\ ~NotNewer(lastItem.item)
       /\ run.min_timestamp # None =>
            ItemTime(lastItem.item)[1] >= run.min_timestamp[1]
       /\ HasKeyword(lastItem.item)
       /\ HasUrl(lastItem.item) ) =>
       /\ Ingested
       /\ run.processed_items = lastItem.processed_before + 1

\* C4 witness: a run without min_timestamp on an empty store left out an item
\* of the day before, which has a keyword and a url, and ended with an empty store.
C4_Witness ==
  /\ Evaluated
  /\ run.start = <<>> /\ run.min_timestamp = None
  /\ BeforeToday
  /\ HasKeyword(lastItem.item) /\ HasUrl(lastItem.item)
  /\ Excluded
  /\ run.pc = "done"
  /\ store = <<>>

\* What the code does for an item without a keyword
KeywordGated ==
  /\ ~lastItem.classified
  /\ Excluded

\* C5 as stated: an item whose title and description contain none of the
\* keywords is never passed to either classifier, is never persisted, does not
\* count toward processed, and does not mark stop-paging.
C5_AsStated ==
  (Evaluated /\ ~HasKeyword(lastItem.item)) =>
    /\ KeywordGated
    /\ ~lastItem.marks_stop

\* C5: an item whose title and description contain none of the keywords is
\* never passed to either classifier, is never persisted and does not count
\* toward processed; it marks stop-paging if and only if its timestamp is
\* <= last_timestamp or below the floor.
C5_KeywordGate ==
  (Evaluated /\ ~HasKeyword(lastItem.item)) =>
    /\ KeywordGated
    /\ lastItem.marks_stop <=>
         NotNewer(lastItem.item) \/ BelowFloor(lastItem.item)

\* C5 witness: an item without a keyword, with a url and with a timestamp
\* newer than last_timestamp, evaluated in a run on a store that is not empty:
\* it was left out and did not mark stop-paging.
C5_Witness ==
  /\ Evaluated
  /\ ~HasKeyword(lastItem.item)
  /\ HasUrl(lastItem.item)
  /\ run.last_timestamp # None
  /\ ItemTime(lastItem.item) # None
  /\ ~NotNewer(lastItem.item) /\ ~BelowFloor(lastItem.item)
  /\ KeywordGated
  /\ ~lastItem.marks_stop
  /\ ~run.stop_paging
  /\ run.pc = "done"

(***************************************************************************)
(* TophubClient._call (SpecSearch).                                        *)
(***************************************************************************)
\* A call of the client's search has ended
SearchEnded == lastOp.kind = "search" /\ lastOp.pc \in {"returned", "raised"}

\* The outcomes that are transient transport failures
TransientFailures == {"timeout", "http_error"}

\* The requests of the call that were answered with a JSON object
Successes == {n \in 1..Len(lastOp.outcomes) : lastOp.outcomes[n] = "ok"}

\* C11: search returns the payload of the first successful attempt; on
\* transient transport failures it retries and fails only after its retries
\* are exhausted; one call makes at most max_retries+1 requests, and exactly
\* max_retries+1 when every attempt fails transiently.
C11_SearchRetry ==
  lastOp.kind = "search" =>
    /\ Len(lastOp.outcomes) <= lastOp.max_retries + 1
    /\ lastOp.pc = "returned" <=> Successes # {}
    /\ lastOp.pc = "returned" =>
         /\ Successes = {Len(lastOp.outcomes)}
         /\ lastOp.payload = <<Len(lastOp.outcomes)>>
    /\ ( /\ lastOp.pc = "request"
         /\ Len(lastOp.outcomes) >= 1
         /\ lastOp.outcomes[Len(lastOp.outcomes)] \in TransientFailures ) =>
         Len(lastOp.outcomes) <= lastOp.max_retries
    /\ ( /\ lastOp.pc = "raised"
         /\ lastOp.outcomes[Len(lastOp.outcomes)] \in TransientFailures ) =>
         Len(lastOp.outcomes) = lastOp.max_retries + 1
    /\ ( /\ SearchEnded
         /\ \A n \in 1..Len(lastOp.outcomes) : lastOp.outcomes[n] \in TransientFailures ) =>
         /\ lastOp.pc = "raised"
         /\ Len(lastOp.outcomes) = lastOp.max_retries + 1

\* C11 witness: a client with two retries or more returned the payload of its
\* third request after two transient failures.
C11_Witness ==
  /\ lastOp.kind = "search"
  /\ lastOp.pc = "returned"
  /\ lastOp.max_retries >= 2
  /\ lastOp.outcomes = <<"timeout", "http_error", "ok">>
  /\ lastOp.payload = <<3>>

\* base * 2^k, capped
SpecDelay(base, cap, k) == IF base * (2 ^ k) < cap THEN base * (2 ^ k) ELSE cap

\* C12: the wait before retry number k (k = 0, 1, ...) of a search call is
\* min(backoff_base * 2^k, backoff_cap); the waits are non-decreasing in k,
\* never exceed backoff_cap, and no wait happens after the final failed attempt.
C12_Backoff ==
  lastOp.kind = "search" =>
    /\ \A k \in 0..(Len(lastOp.waits) - 1) :
         /\ lastOp.waits[k + 1] = SpecDelay(lastOp.backoff_base, lastOp.backoff_cap, k)
         /\ lastOp.waits[k + 1] <= lastOp.backoff_cap
         /\ k >= 1 => lastOp.waits[k] <= lastOp.waits[k + 1]
    /\ lastOp.pc = "request" => Len(lastOp.waits) = Len(lastOp.outcomes)
    /\ SearchEnded => Len(lastOp.waits) = Len(lastOp.outcomes) - 1

\* C12 witness: a call that failed for good after three retries, whose waits
\* grew and then met the cap.
C12_Witness ==
  /\ lastOp.kind = "search"
  /\ lastOp.pc = "raised"
  /\ Len(lastOp.outcomes) = 4
  /\ Len(lastOp.waits) = 3
  /\ lastOp.waits[1] < lastOp.waits[2]
  /\ lastOp.waits[3] = lastOp.backoff_cap
  /\ lastOp.backoff_base * 4 > lastOp.backoff_cap

(***************************************************************************)
(* Failures of a run (Spec).                                               *)
(***************************************************************************)
\* The payload the run received last is a JSON object without a list of
\* items under "data"
UnexpectedShape == IsNone(run.payload.items)

\* C13 as stated: a feed response of malformed or unexpected shape makes the
\* search fail at once and the run terminate with an error; it is not treated
\* as a normal end of the feed.
C13_MalformedFeedFails == (run.number >= 1 /\ UnexpectedShape) => run.pc # "done"

\* C14 as stated: when the search fails with a transport timeout, run_pipeline
\* returns statistics with inserted = 0 and processed = 0 instead of raising.
C14_TimeoutReturnsStats ==
  run.raised = "ReadTimeout" =>
    /\ run.pc = "done"
    /\ run.inserted_count = 0
    /\ run.processed_items = 0

\* The run aborts in this step
Aborts == run.pc # "failed" /\ run'.pc = "failed"

\* C15: every insert or update is committed before the next item is
\* processed, so when a run aborts (a search fails for good, or the upsert of
\* the in-flight item raises) the store is left as it was after the last item
\* before: every record inserted or updated earlier in the run remains persisted
\* and at most the in-flight item is lost.
C15_PerItemCommit ==
  /\ [](run.pc \in {"fetch", "items"} => run.committed = store)
  /\ [][Aborts => store' = store]_vars
  /\ [](run.pc = "failed" =>
          /\ Len(store) = Len(run.start) + run.inserted_count
          /\ run.committed = store)

\* C15 witness: the search for the second page failed for good in a run that
\* had inserted a record and updated it, and the store is no longer the one of
\* the start of the run.
C15_Witness ==
  /\ run.pc = "failed"
  /\ run.raised \in SearchFailures
  /\ run.page >= 2
  /\ run.inserted_count >= 1
  /\ run.updated_count >= 1
  /\ Len(store) > Len(run.start)

(***************************************************************************)
(* The classifiers (SpecClassify, Spec).                                   *)
(***************************************************************************)
\* C16 as stated: LLMClassifier.classify, constructed with max_retries >= 1,
\* retries after a transient transport failure: when the first attempt times
\* out and the second succeeds it makes exactly two attempts and returns the
\* label and confidence of the successful response.
C16_RetryThenSuccess ==
  ( /\ lastOp.kind = "classify"
    /\ "max_retries" \in lastOp.kwargs
    /\ lastOp.api_key # ""
    /\ lastOp.responses = <<Failure("timeout"), Answer(Some("negative"), Number(90))>> ) =>
    /\ lastOp.raised = ""
    /\ lastOp.posts = 2
    /\ lastOp.result = <<"negative", 90>>

\* What the classifiers answer when both fail: the neutral sentiment 0.5, the
\* label "error" with confidence 0.0, and no exception
Sentinel == <<50, <<"error", 0>>, "">>

\* The item processed last was classified, and the LLM classifier failed on it
ClassifierFailed ==
  /\ lastItem.kind = "item"
  /\ lastItem.classified
  /\ lastItem.reply[1][2][1] \notin {"negative", "neutral", "positive", "unknown"}

ContractLabels == {"negative", "neutral", "positive", "unknown", "error", "not_configured"}

\* C18 as stated: for every response of the LLM service, classify yields a
\* label among the six of the contract and a confidence in [0,1].
C18_ResultDomain ==
  (lastOp.kind = "classify" /\ lastOp.result # <<>>) =>
    /\ lastOp.result[1] \in ContractLabels
    /\ lastOp.result[2] \in 0..100

(***************************************************************************)
(* Records are removed by maintenance only (SpecMaintain).                 *)
(***************************************************************************)
\* The ids of the records stored in these rows
Ids(rows) == {rows[i].id : i \in DOMAIN rows}

\* C19: no pipeline run, completed or aborted, removes a record: as long as no
\* delete_articles_since has followed the run, the stored ids are a superset
\* of those at its start; and a step that removes a record is a call of
\* delete_articles_since.
C19_NoDeletionByIngestion ==
  /\ []((run.pc # "idle" /\ lastOp.kind # "delete") => Ids(run.start) \subseteq Ids(store))
  /\ [][~(Ids(store) \subseteq Ids(store')) => lastOp'.kind = "delete"]_vars

\* C19 witness: a run that began with records in the store has ended, having
\* inserted another one, and nothing was deleted since.
C19_Witness ==
  /\ run.pc \in {"done", "failed"}
  /\ run.start # <<>>
  /\ run.inserted_count >= 1
  /\ lastOp.kind # "delete"
  /\ Len(store) > Len(run.start)

(***************************************************************************)
(* The statistics of a run (Spec).                                         *)
(***************************************************************************)
\* The items the feed holds on page p (none when the page has no list of
\* items, or when the feed has no such page)
ItemsOnPage(p) ==
  IF p > Len(run.feed) THEN <<>>
  ELSE IF run.feed[p].items = None THEN <<>>
  ELSE run.feed[p].items[1]

\* The places <<page, index>> of the items on the pages the run requested
RequestedItems == {<<p, k>> \in (1..run.page) \X (1..MaxPageLen) : k <= Len(ItemsOnPage(p))}

\* C20: when a run completes, fetched equals the number of items on all pages
\* requested in the run, whatever their disposition, and processed equals the
\* number of items that passed the timestamp rules and the keyword filter and
\* were passed to upsert_article (those with a url).
C20_Statistics ==
  run.pc = "done" =>
    /\ run.fetched_items = Cardinality(RequestedItems)
    /\ run.processed_items =
         Cardinality({pk \in RequestedItems : QualifiesWithUrl(ItemsOnPage(pk[1])[pk[2]])})
    /\ run.inserted_count + run.updated_count <= run.processed_items
    /\ run.processed_items <= run.fetched_items

\* C20 witness: a run completed after two pages with items, some of them
\* passed to upsert_article and some skipped, one for having no keyword.
C20_Witness ==
  /\ run.pc = "done"
  /\ run.page >= 2
  /\ Len(ItemsOnPage(1)) >= 1
  /\ Len(ItemsOnPage(2)) >= 1
  /\ run.fetched_items >= 3
  /\ run.processed_items >= 1
  /\ run.processed_items < run.fetched_items
  /\ \E pk \in RequestedItems : ~HasKeyword(ItemsOnPage(pk[1])[pk[2]])

(***************************************************************************)
(* delete_articles_since (SpecDelete).                                     *)
(***************************************************************************)
\* C21: delete_articles_since(T) removes exactly the records with
\* source_timestamp >= T (one with source_timestamp equal to T included),
\* leaves every other record and all of its fields untouched, in their order,
\* and returns the number of records removed.
C21_DeletionScope ==
  lastOp.kind = "delete" =>
    /\ \A i \in DOMAIN lastOp.before :
         (lastOp.before[i].source_timestamp < lastOp.since)
           <=> (\E j \in DOMAIN store : store[j] = lastOp.before[i])
    /\ \A j \in DOMAIN store :
         \E i \in DOMAIN lastOp.before : store[j] = lastOp.before[i]
    /\ \A j, k \in DOMAIN store : j < k => store[j].id < store[k].id
    /\ lastOp.removed = Len(lastOp.before) - Len(store)
    /\ lastOp.removed =
         Cardinality({lastOp.before[i].id : i \in DOMAIN lastOp.before}
                     \ {store[j].id : j \in DOMAIN store})

\* C21 witness: a delete removed the record of the very time T and an
\* older record is left.
C21_Witness ==
  /\ lastOp.kind = "delete"
  /\ lastOp.removed >= 1
  /\ store # <<>>
  /\ \E i \in DOMAIN lastOp.before :
       /\ lastOp.before[i].source_timestamp = lastOp.since
       /\ \A j \in DOMAIN store : store[j].id # lastOp.before[i].id

(***************************************************************************)
(* The triggers (SpecTrigger).                                             *)
(***************************************************************************)
\* C22 as stated: at any time at most one pipeline run is executing, over all
\* the ways a run can be triggered.
C22_MutualExclusion ==
  Cardinality({i \in DOMAIN running : running[i].executing}) <= 1

(***************************************************************************)
(* Integrity failures (SpecRace).                                          *)
(***************************************************************************)
\* The run aborts in this step on a violated integrity constraint
AbortsOnIntegrity == Aborts /\ run'.raised = "IntegrityError"

\* C23: when persisting an item violates an integrity constraint of the store
\* (another session inserted the same url first), the changes of the
\* in-flight item are rolled back (no record carries its values), the records
\* committed earlier in the run stay persisted as they were, and the run
\* terminates with the error.
C23_IntegrityFailure ==
  /\ [][AbortsOnIntegrity =>
          /\ \A i \in DOMAIN store : i \in DOMAIN store' /\ store'[i] = store[i]
          /\ \A j \in DOMAIN store' :
               store'[j].url = lastOp'.article.url => store'[j].reason = None
          /\ Len(store') = Len(store) + 1
          /\ run'.pc = "failed"]_vars
  /\ [](run.raised = "IntegrityError" =>
          /\ run.pc = "failed"
          /\ Len(store) = Len(run.start) + run.inserted_count + 1)

\* C23 witness: a run that had inserted a record and updated it aborted on
\* IntegrityError at a later item, and both records are stored.
C23_Witness ==
  /\ run.pc = "failed"
  /\ run.raised = "IntegrityError"
  /\ run.inserted_count >= 1
  /\ run.updated_count >= 1
  /\ lastOp.kind = "upsert"
  /\ lastOp.raised = "IntegrityError"
  /\ Len(store) >= Len(run.start) + 2

(***************************************************************************)
(* The fingerprint engine (SpecFingerprint).                               *)
(***************************************************************************)
\* The words of a text: its maximal runs of characters that are no spaces
RECURSIVE Words(_, _)
Words(text, word) ==
  IF text = <<>> THEN (IF word = <<>> THEN <<>> ELSE <<word>>)
  ELSE IF text[1] = " "
       THEN (IF word = <<>> THEN <<>> ELSE <<word>>) \o Words(Tail(text), <<>>)
       ELSE Words(Tail(text), word \o <<text[1]>>)

\* The normalized text of a fingerprint call: the words of the title and then
\* those of the description
NormalizedWords(op) ==
  Words(op.title, <<>>)
  \o (IF op.description = None THEN <<>> ELSE Words(op.description[1], <<>>))

\* C24: the fingerprint is a function of the normalized text only: two
\* (title, description) pairs with equal normalized text give the identical
\* result; the result is absent if and only if the normalized text is empty,
\* otherwise it is exactly 16 lowercase hexadecimal characters.
C24_Determinism ==
  lastOp.kind = "fingerprint" =>
    /\ (prev.kind = "fingerprint" /\ NormalizedWords(prev) = NormalizedWords(lastOp))
          => prev.fingerprint = lastOp.fingerprint
    /\ lastOp.fingerprint = None <=> NormalizedWords(lastOp) = <<>>
    /\ lastOp.fingerprint # None =>
         /\ Len(lastOp.fingerprint[1]) = 16
         /\ \A k \in 1..16 :
              lastOp.fingerprint[1][k] \in
                {"0", "1", "2", "3", "4", "5", "6", "7", "8", "9",
                 "a", "b", "c", "d", "e", "f"}

\* C24 witness: two calls with different titles and descriptions and the same
\* normalized text of two words gave the same fingerprint.
C24_Witness ==
  /\ lastOp.kind = "fingerprint"
  /\ prev.kind = "fingerprint"
  /\ prev.title # lastOp.title
  /\ prev.description # lastOp.description
  /\ NormalizedWords(prev) = NormalizedWords(lastOp)
  /\ Len(NormalizedWords(lastOp)) = 2
  /\ lastOp.fingerprint # None
  /\ prev.fingerprint = lastOp.fingerprint

\* The frequency-weighted sum of bit b over the tokens of the fingerprinted
\* text: +1 for each occurrence of a token whose hash has the bit, -1 for
\* each other occurrence
BitSum(op, b) ==
  LET occ == TokenOccurrences(Join(<<" ">>, NormalizedWords(op)))
  IN  2 * Cardinality({i \in DOMAIN occ : TokenHashBit(occ[i], b)}) - Len(occ)

\* C25: for every bit position of the 64, the bit of the fingerprint is set
\* if and only if the position is not among the lowest 8 and the
\* frequency-weighted sum over all tokens is strictly greater than zero.
C25_BitRule ==
  (lastOp.kind = "fingerprint" /\ lastOp.fingerprint # None) =>
    \A b \in 0..63 :
      HexBit(lastOp.fingerprint[1], b) = 1 <=> (b >= 8 /\ BitSum(lastOp, b) > 0)

\* C25 witness: a fingerprint with a bit above the lowest 8 whose sum is
\* exactly zero, with bits set and bits unset for a sum that is not zero, and
\* with a positive sum among the lowest 8.
C25_Witness ==
  /\ lastOp.kind = "fingerprint"
  /\ lastOp.fingerprint # None
  /\ \E b \in 8..63 : BitSum(lastOp, b) = 0 /\ HexBit(lastOp.fingerprint[1], b) = 0
  /\ \E b \in 8..63 : BitSum(lastOp, b) > 0
  /\ \E b \in 8..63 : BitSum(lastOp, b) < 0
  /\ \E b \in 0..7 : BitSum(lastOp, b) > 0

\* The record a successful call of upsert_article inserted or merged onto
TouchedRow ==
  IF lastOp.inserted THEN store[Len(store)]
  ELSE store[CHOOSE i \in DOMAIN store : store[i].id = lastOp.located.id]

\* Every keyword of the list holds a character that is neither blank nor the
\* separator that joins title and description
HoldsText(keywords) ==
  \A k \in DOMAIN keywords : \E c \in DOMAIN keywords[k] : keywords[k][c] \notin {" ", "."}

\* C26: every record inserted or merged by a run has a fingerprint
\* afterwards, and a merge never clears the fingerprint of a record, when the
\* keywords of the run hold text other than the separator of title and
\* description.
C26_FingerprintPresent ==
  (lastItem.kind = "one" /\ lastItem.disposition = "upserted" /\ Upserted
     /\ HoldsText(lastItem.keywords)) =>
    TouchedRow.content_fingerprint # None

\* C26 witness: a run merged an item onto a record that had a fingerprint,
\* and the record has one afterwards.
C26_Witness ==
  /\ lastItem.kind = "one" /\ lastItem.disposition = "upserted"
  /\ Merged /\ HoldsText(lastItem.keywords)
  /\ lastOp.before[MatchedPos].content_fingerprint # None
  /\ TouchedRow.content_fingerprint # None

\* C26 as stated: every record inserted or merged by a pipeline run has a
\* fingerprint afterwards, whatever the keywords.
C26_AsStated ==
  (lastItem.kind = "one" /\ lastItem.disposition = "upserted" /\ Upserted) =>
    TouchedRow.content_fingerprint # None


\* The item the run evaluates next, on the page it is on
CurrentItem == ItemsOnPage(run.page)[run.idx]

\* A step that evaluates an item of the page
EvaluatesItem == run.pc = "items" /\ run'.pc # "idle" /\ run'.idx = run.idx + 1

\* The item has no timestamp that can be read, or it has no url and is not
\* set aside before its url is looked at: it is newer than last_timestamp, not
\* below the floor, and passes the keyword filter
LocalDefect(item) == ItemTime(item) = None \/ (Qualifies(item) /\ ~HasUrl(item))

C28_PageCap ==
  (run.pc = "items" /\ tophub_max_pages # None) => run.page <= tophub_max_pages[1]


\* The items a payload holds, none when it holds no list
PayloadItems(payload) == IF payload.items = None THEN <<>> ELSE payload.items[1]

\* The payload reports an integer total-page count
ReportsCount(payload) == Len(payload.totalpage) = 1

\* A step that ends the work on page p = run.page: the page came back without
\* items, or the loop over its items ended
PageOver == run.pc \in {"fetch", "items"} /\ run'.pc \in {"fetch", "done"}

\* C29: pages are requested in the order 1, 2, 3, ... with no page number
\* requested twice in a run; page p+1 is requested only after every item of
\* page p has been evaluated, and it is requested if and only if page p
\* returned at least one item, no item of page p marked stop-paging, and the
\* feed either reported no integer total-page count or p is below that count.
C29_NextPage ==
  /\ [][run'.number # run.number => run'.page = 1 /\ run'.pc = "fetch"]_vars
  /\ [][run'.number = run.number =>
          \/ run'.page = run.page /\ (run'.pc = "fetch" => run.pc = "fetch")
          \/ run'.page = run.page + 1 /\ PageOver /\ run'.pc = "fetch"]_vars
  /\ [][PageOver =>
          LET payload == run'.payload
              page == PayloadItems(payload)
          IN  /\ run.pc = "items" => run.idx = Len(page) + 1
              /\ (run'.pc = "fetch" /\ run'.page = run.page + 1) <=>
                   /\ Len(page) >= 1
                   /\ \A k \in DOMAIN page : ~NotNewer(page[k]) /\ ~BelowFloor(page[k])
                   /\ ReportsCount(payload) => run.page < payload.totalpage[1]]_vars

\* C29 witness: page 1 reported the str "2" and page 2 was requested; page 2
\* reported the count 2 and the run completed there, no item of either page
\* having marked stop-paging.
C29_Witness ==
  /\ run.pc = "done"
  /\ run.page = 2
  /\ Len(run.feed) = 2
  /\ run.feed[1].totalpage = StrTotal("2")
  /\ run.feed[2].totalpage = Some(2)
  /\ Len(PayloadItems(run.feed[2])) = 1
  /\ ~run.stop_paging
  /\ run.fetched_items = 2


\* The latest source_timestamp of the records the store held when the run
\* started, None when it held none
StartLatest ==
  IF run.start = <<>> THEN None
  ELSE Some(CHOOSE t \in {run.start[i].source_timestamp : i \in DOMAIN run.start} :
              \A i \in DOMAIN run.start : run.start[i].source_timestamp <= t)

\* The item is newer than every record the store held when the run started
NewerThanStart(item) ==
  /\ ItemTime(item) # None
  /\ StartLatest # None => ItemTime(item)[1] > StartLatest[1]

\* The records of the store, as it was before the last item, that the run
\* inserted or merged with a timestamp at or after that of the last item
LaterInRun ==
  {i \in DOMAIN lastItem.before :
     /\ lastItem.before[i].source_timestamp >= ItemTime(lastItem.item)[1]
     /\ \/ i \notin DOMAIN run.start
        \/ lastItem.before[i] # run.start[i]}

\* C30: last_timestamp is read once at run start and never refreshed during
\* the run: an item inserted or merged in the run with timestamp T does not
\* cause a later item of the same run with timestamp <= T (but newer than the
\* start-of-run last_timestamp) to be skipped or to mark stop-paging.
C30_ReadOnce ==
  /\ [](run.pc # "idle" => run.last_timestamp = StartLatest)
  /\ [][run'.number = run.number => run'.last_timestamp = run.last_timestamp]_vars
  /\ []((Evaluated /\ NewerThanStart(lastItem.item) /\ ~BelowFloor(lastItem.item)) =>
          /\ ~lastItem.marks_stop
          /\ QualifiesWithUrl(lastItem.item) => Ingested)

\* C30 witness: the run upserted an item, newer than last_timestamp, after it
\* had inserted or merged in this run a record with a timestamp at least as
\* late; the item did not mark stop-paging.
C30_Witness ==
  /\ Ingested
  /\ Upserted
  /\ NewerThanStart(lastItem.item)
  /\ LaterInRun # {}
  /\ ~lastItem.marks_stop
  /\ ~run.stop_paging
  /\ run.processed_items = 2


\* C31: every record inserted or modified during a run has, right after the
\* change, a source_timestamp strictly greater than the last_timestamp read at
\* run start (when there was one) and not below the effective floor (when
\* there is one); an item with timestamp equal to last_timestamp is skipped
\* and marks stop-paging, while an item with timestamp equal to the floor is
\* accepted.
C31_TimestampBounds ==
  /\ (Ingested /\ Upserted /\ (lastOp.inserted \/ lastOp.updated)) =>
        /\ StartLatest # None => TouchedRow.source_timestamp > StartLatest[1]
        /\ SpecFloor # None => TouchedRow.source_timestamp >= SpecFloor[1]
  /\ (Evaluated /\ StartLatest # None /\ ItemTime(lastItem.item) = StartLatest) =>
        /\ lastItem.marks_stop
        /\ lastItem.disposition # "upserted"
        /\ store = lastItem.before
  /\ (Evaluated /\ SpecFloor # None /\ ItemTime(lastItem.item) = SpecFloor
        /\ NewerThanStart(lastItem.item) /\ HasKeyword(lastItem.item)
        /\ HasUrl(lastItem.item)) =>
        Ingested /\ ~lastItem.marks_stop

\* C31 witness: a run on a store that is not empty inserted an item whose
\* timestamp is the floor of the run and newer than last_timestamp.
C31_Witness ==
  /\ Ingested
  /\ lastOp.inserted
  /\ StartLatest # None
  /\ SpecFloor # None
  /\ ItemTime(lastItem.item) = SpecFloor
  /\ TouchedRow.source_timestamp = SpecFloor[1]
  /\ TouchedRow.source_timestamp > StartLatest[1]


\* C32: every run eventually either returns its statistics or aborts,
\* provided each search attempt eventually returns or fails; in particular,
\* against a feed that keeps returning non-empty pages of new items and
\* reports no total-page count, the run still ends.
C32_Termination == (run.pc = "fetch") ~> (run.pc \in {"done", "failed"})


\* A keyword without the blanks around it
Trimmed(word) ==
  LET solid == {i \in DOMAIN word : word[i] # " "}
  IN  IF solid = {} THEN <<>>
      ELSE SubSeq(word, CHOOSE i \in solid : \A j \in solid : i <= j,
                        CHOOSE i \in solid : \A j \in solid : i >= j)

\* A character without its case
Folded(c) == IF c = "B" THEN "b" ELSE c

\* The word occurs in the text, case apart
Occurs(word, text) ==
  \E i \in 0..(Len(text) - Len(word)) :
    \A j \in 1..Len(word) : Folded(text[i + j]) = Folded(word[j])

\* The places of the keywords of the call that are not blank and occur in
\* its text
Occurring ==
  {k \in DOMAIN lastOp.keywords :
     /\ Trimmed(lastOp.keywords[k]) # <<>>
     /\ Occurs(Trimmed(lastOp.keywords[k]), lastOp.text)}

\* C33: match_keywords returns exactly the configured keywords
\* (whitespace-trimmed) that occur in the text as case-insensitive
\* substrings, in the order of the keyword list and not in the order they
\* appear in the text; an empty or whitespace-only keyword never matches; a
\* keyword listed twice is returned twice.
C33_MatchKeywords ==
  lastOp.kind = "match" =>
    /\ Len(lastOp.matched) = Cardinality(Occurring)
    /\ \A k \in Occurring :
         lastOp.matched[Cardinality({j \in Occurring : j <= k})]
           = Trimmed(lastOp.keywords[k])

\* C33 witness: in the text "leak Bug" the keywords " bug ", "leak", " bug "
\* are found and returned as "bug", "leak", "bug".
C33_Witness ==
  /\ lastOp.kind = "match"
  /\ lastOp.text = <<"l", "e", "a", "k", " ", "B", "u", "g">>
  /\ lastOp.keywords = <<<<" ", "b", "u", "g", " ">>, <<"l", "e", "a", "k">>,
                          <<" ", "b", "u", "g", " ">>>>
  /\ lastOp.matched = <<<<"b", "u", "g">>, <<"l", "e", "a", "k">>, <<"b", "u", "g">>>>


\* C34: starting from a store with pairwise distinct urls, after any sequence
\* of upsert_article calls made in one session no two stored records share a
\* url, and upsert_article never trips the store's unique-url constraint.
C34_UrlUnique ==
  /\ \A i, j \in DOMAIN store : store[i].url = store[j].url => i = j
  /\ lastOp.kind = "upsert" => lastOp.raised # "IntegrityError"

\* C34 witness: a candidate whose url is stored was merged, by its
\* fingerprint, onto a record under another url, and the store holds the two
\* records under their two urls.
C34_Witness ==
  /\ Merged
  /\ lastOp.before[MatchedPos].url # lastOp.input.url
  /\ UrlMatches(lastOp.before, lastOp.input) # {}
  /\ store[MatchedPos].url = lastOp.before[MatchedPos].url
  /\ Len(store) = Len(lastOp.before)

\* C35: starting from a store whose fingerprinted records have pairwise
\* distinct fingerprints, after any sequence of upsert_article calls (inserts
\* and merges, including merges that overwrite a record's fingerprint) no two
\* stored records share a fingerprint, so the exact-match lookup never finds
\* more than one record and never fails.
C35_FingerprintUnique ==
  /\ \A i, j \in Fingerprinted(store) :
       store[i].content_fingerprint = store[j].content_fingerprint => i = j
  /\ lastOp.kind = "upsert" =>
       /\ lastOp.raised # "MultipleResultsFound"
       /\ Cardinality(ExactMatches(lastOp.before, lastOp.article)) <= 1

\* C35 witness: a merge overwrote the fingerprint of a record with another
\* one, in a store of three fingerprinted records.
C35_Witness ==
  /\ Merged
  /\ lastOp.before[MatchedPos].content_fingerprint # None
  /\ store[MatchedPos].content_fingerprint # None
  /\ store[MatchedPos].content_fingerprint # lastOp.before[MatchedPos].content_fingerprint
  /\ Cardinality(Fingerprinted(store)) = 3

\* C36: after any sequence of upsert_article calls that keeps the store
\* within the recency window, no two stored records are the same story, that
\* is, no two stored fingerprints are within Hamming distance 24 of each
\* other.
C36_OneRecordPerStory ==
  Cardinality(Fingerprinted(store)) <= SIMHASH_CANDIDATE_LIMIT =>
    \A i, j \in Fingerprinted(store) :
      Hamming(store[i].content_fingerprint[1], store[j].content_fingerprint[1]) <= 24
        => i = j


\* The latest source_timestamp the store holds
StoreLatest ==
  CHOOSE t \in {store[i].source_timestamp : i \in DOMAIN store} :
    \A i \in DOMAIN store : store[i].source_timestamp <= t

\* C37: the latest persisted timestamp never moves backwards across a run:
\* for every run that starts on a non-empty store, the latest timestamp of
\* the store when the run ends (completed or aborted), and at every moment of
\* the run, is greater than or equal to its value at run start, also when
\* merges overwrite the source_timestamp of the record that held the maximum.
C37_LatestMonotone ==
  (run.pc # "idle" /\ run.start # <<>>) =>
    /\ store # <<>>
    /\ StoreLatest >= StartLatest[1]

\* C37 witness: a run that started on a store that was not empty has ended
\* after a merge overwrote the source_timestamp of the record that held the
\* latest timestamp.
C37_Witness ==
  /\ run.pc \in {"done", "failed"}
  /\ run.start # <<>>
  /\ \E i \in DOMAIN run.start :
       /\ run.start[i].source_timestamp = StartLatest[1]
       /\ store[i].id = run.start[i].id
       /\ store[i].source_timestamp > StartLatest[1]
  /\ Len(store) = Len(run.start)



(***************************************************************************)
(* bulk_upsert_articles against upsert_article                             *)
(***************************************************************************)
\* upsert_article on each candidate in list order, from the given rows:
\* the rows afterwards, the totals, and the exception that ended it (or "")
RECURSIVE EachInTurn(_, _, _, _, _)
EachInTurn(rows, articles, inserted, updated, now) ==
  IF articles = <<>>
  THEN [rows |-> rows, inserted |-> inserted, updated |-> updated, raised |-> ""]
  ELSE LET After(r) ==
             IF r.raised # ""
             THEN [rows |-> r.rows, inserted |-> inserted, updated |-> updated,
                   raised |-> r.raised]
             ELSE EachInTurn(r.rows, Tail(articles),
                             IF r.inserted THEN inserted + 1 ELSE inserted,
                             IF r.updated THEN updated + 1 ELSE updated, now)
       IN  After(upsert_article(rows, Head(articles), now))

\* C38: bulk_upsert_articles on a list leaves the store and returns the
\* totals that upsert_article leaves and returns when it is called on each
\* candidate of the list in order.
C38_BulkAgrees ==
  lastOp.kind = "bulk" =>
    \E each \in {EachInTurn(lastOp.before, lastOp.articles, 0, 0, lastOp.now)} :
        /\ lastOp.raised = each.raised
        /\ store = each.rows
        /\ lastOp.inserted = each.inserted
        /\ lastOp.updated = each.updated


(***************************************************************************)
(* upsert_article, twice                                                   *)
(***************************************************************************)
\* The step is a call of upsert_article that follows a call that returned,
\* with a candidate of the same url and the same 13 mutable fields
SameAgain ==
  /\ Upserted
  /\ lastOp' # lastOp
  /\ lastOp'.kind = "upsert"
  /\ lastOp'.input.url = lastOp.input.url
  /\ \A f \in SpecMutableFields : lastOp'.input[f] = lastOp.input[f]

\* C39: upserting a candidate again, right after it was upserted (inserted
\* or merged), returns (inserted=false, updated=false) and leaves the store
\* as it was.
C39_Idempotent ==
  [][SameAgain => /\ lastOp'.raised = ""
                  /\ ~lastOp'.inserted
                  /\ ~lastOp'.updated
                  /\ store' = store]_vars

\* A call that changed nothing: the record it found holds every field of
\* the candidate, under another url (an earlier call merged the candidate
\* onto it)
C39_Witness ==
  /\ Merged
  /\ ~lastOp.updated
  /\ store = lastOp.before
  /\ store[MatchedPos].url # lastOp.input.url
  /\ \A f \in SpecMutableFields : store[MatchedPos][f] = lastOp.article[f]

=============================================================================
